---- MODULE Spec2Model ----
(***************************************************************************)
(* Model of the bar-by-bar simulation engine of the trading system         *)
(* (trading-system/src/backtesting_engine.py): BacktestingEngine,          *)
(* RiskManager and Trade.                                                   *)
(*                                                                         *)
(* Numbers.  The program computes in floats.  Here every float is a        *)
(* fixed-point integer counting thousandths (One = 1.000): prices, cash,   *)
(* share counts, fractions and ratios alike, so the program's arithmetic   *)
(* is reproduced operation by operation, including the places where it     *)
(* mixes units.  Products and quotients round down to a thousandth.        *)
(* None (Python's None) is -1; no price or timestamp of the model is       *)
(* negative.                                                               *)
(*                                                                         *)
(* The Fibonacci level encoders (mathematical_framework.py:                *)
(* FibonacciPriceEncoder, ZeckendorfCompressor; backtesting_engine.py:     *)
(* zeckendorf_encode, zeckendorf_decode) compute in Python's unbounded     *)
(* integers, up to F(100).  Here such an integer is three limbs in base    *)
(* 10^9, so their tables have the sizes the program gives them.            *)
(***************************************************************************)
EXTENDS Integers, Sequences, FiniteSets, TLC

(***************************************************************************)
(* Bounds of the model.                                                    *)
(***************************************************************************)
MaxBars == 3
\* the longest series of the runs that fill up the position list
CapBars == 6
\* the longest series of the runs that probe the risk manager
RiskBars == 2
\* the integers from -2 up to ZMaxValue are compressed and encoded
ZMaxValue == 60
\* index lists of up to ZMaxLen indices from 0..ZMaxIndex are decompressed
ZMaxLen == 3
ZMaxIndex == 5
\* encoders with max_index from -1 up to EncMaxIndex encode the prices from
\* -1 up to PriceMax and look for up to MaxLevels levels
EncMaxIndex == 8
PriceMax == 25
MaxLevels == 3


\* Lucas encoders with max_index from -1 up to LucasMaxIndex, and the default
\* one, are asked about the times from -1 up to TimeMax
LucasMaxIndex == 11
TimeMax == 30


\* the longest ledger, return series and curve handed to the analyzer
MaxTrades == 3


\* the longest series of any bars handed to a strategy
StratBars == 4

\* the lookback_period of the mean reversion strategy
MeanLookback == 4


\* the length of the flat series
FlatBars == 50


\* the longest series of the runs that hold a position
HoldBars == 9


\* the longest series of the runs on a reused engine
ReuseBars == 2


\* the threads that call the API client at the same time
NumThreads == 2
\* the clock of the API client runs up to this tick
MaxTime == 3

(***************************************************************************)
(* Fixed-point arithmetic.                                                 *)
(***************************************************************************)
One == 10 * 10 * 10

None == 0 - 1

\* a * b on floats; split so that no intermediate exceeds 32 bits
Mul(a, b) == (a \div One) * b + ((a % One) * b) \div One

\* a / b on floats, b > 0
Div(a, b) == (a \div b) * One + ((a % b) * One) \div b

Abs(x) == IF x < 0 THEN 0 - x ELSE x

Min2(a, b) == IF a <= b THEN a ELSE b

Last(s) == s[Len(s)]

\* what a call returns, and what it leaves when it raises
Return(v) == [error |-> "none", value |-> v]

Raise(e) == [error |-> e, value |-> None]

\* Python truthiness of an Optional[float]: None and 0.0 are false
Truthy(x) == x # None /\ x # 0

(***************************************************************************)
(* Configuration (BacktestingEngine.__init__, RiskManager.__init__).       *)
(***************************************************************************)
\* initial_capital: a constructor argument; the model runs with 1000.000
initial_capital == 1000 * One
\* commission = 0.001
commission == 1
\* slippage = 0.001
slippage == 1
\* RiskManager.config
max_position_size == 618
max_portfolio_risk == 236
default_stop_loss_pct == 50
risk_reward_ratio == 1618
\* validate_trade: "Max 5 concurrent positions"
MaxConcurrentPositions == 5
\* _execute_buy: "Minimum position size" (100 units of currency)
MinPositionSize == 100 * One
\* calculate_stop_loss: the swing-low lookback, in bars
StopLookback == 20

required_cols == {"timestamp", "open", "high", "low", "close", "volume"}

(***************************************************************************)
(* Inputs: the bar series and the signals a strategy may emit.             *)
(***************************************************************************)
\* The bars a series is drawn from: low <= close <= high.  Only the fields
\* the engine reads are kept; the timestamp of bar i is i.
BarSet ==
  { [high |-> 10500, low |-> 9800,  close |-> 10000],
    [high |-> 12000, low |-> 9000,  close |-> 10000],
    [high |-> 11500, low |-> 10400, close |-> 11000] }

RECURSIVE SeriesOfLen(_)
SeriesOfLen(n) ==
  IF n = 0 THEN { <<>> }
  ELSE { Append(s, b) : s \in SeriesOfLen(n - 1), b \in BarSet }

AllSeries == UNION { SeriesOfLen(n) : n \in 0..MaxBars }

ColumnSets == { required_cols, required_cols \ {"volume"} }

\* Signal(timestamp, signal_type, price, position_size, stop_loss,
\*        take_profit, confidence)
MkSignal(ts, type, price, size, sl, tp, conf) ==
  [timestamp |-> ts, signal_type |-> type, price |-> price,
   position_size |-> size, stop_loss |-> sl, take_profit |-> tp,
   confidence |-> conf]

NoSignal == MkSignal(None, "NONE", None, 0, None, None, 0)

\* What strategy.generate_signal(data, i) may return for bar i; every
\* strategy of the repository sets timestamp and price from the bar.
SignalsAt(ts, bar) ==
  LET c == bar.close IN
  { MkSignal(ts, "HOLD", c, 0, None, None, One),
    MkSignal(ts, "SELL", c, One, None, None, 800),
    \* no protective levels: the risk manager's defaults apply
    MkSignal(ts, "BUY", c, 618, None, None, One),
    \* stop 5% below, target 10% above: reward/risk 2
    MkSignal(ts, "BUY", c, 618, Mul(c, 950), Mul(c, 1100), 600),
    \* stop 5% below, target 5% above: reward/risk 1, below the minimum
    MkSignal(ts, "BUY", c, 618, Mul(c, 950), Mul(c, 1050), One) }

(***************************************************************************)
(* State.                                                                  *)
(***************************************************************************)
VARIABLES
  pc,               \* where run_backtest is: idle, signal, exit, mark, finish
  outcome,          \* of the last call: none, running, returned, an exception
  data,             \* the bar series of the current call
  columns,          \* data.columns
  i,                \* the loop index, 1-based: bars 1..i-1 are done
  signal,           \* the signal of the current bar
  cash,
  portfolio_value,
  positions,
  closed_trades,
  equity_curve,
  timestamps,
  call,             \* the last call of a function of the level encoder
  ret,              \* what the last call returned or raised
  strategy,         \* the strategy object handed to run_backtest
  other,            \* a second engine, its run and its caller, set aside
  hourly_limiter,   \* TiingoAPIClient.hourly_limiter, a TokenBucket
  minute_limiter,   \* TiingoAPIClient.minute_limiter, a TokenBucket
  now,              \* time.time(), in ticks
  requests          \* the rate-limited call of each thread: where it is

\* the level encoder's calls: they share nothing with the engine
encoder == << call, ret >>

vars == << pc, outcome, data, columns, i, signal, cash, portfolio_value,
           positions, closed_trades, equity_curve, timestamps, call, ret,
           strategy, other, hourly_limiter, minute_limiter, now, requests >>

\* the API client and its callers: they share nothing with the engine
api == << hourly_limiter, minute_limiter, now, requests >>

engine == << cash, portfolio_value, positions, closed_trades, equity_curve,
             timestamps >>

\* where a call of run_backtest is, its arguments and its locals
run == << pc, outcome, data, columns, i, signal, strategy, other >>

(***************************************************************************)
(* Trade.                                                                  *)
(***************************************************************************)
\* Trade(entry_timestamp, entry_price, position_size, stop_loss,
\*       take_profit) with the dataclass defaults for the other fields
Trade(entry_ts, entry_price, shares, sl, tp) ==
  [entry_timestamp |-> entry_ts, exit_timestamp |-> None,
   entry_price |-> entry_price, exit_price |-> None,
   position_size |-> shares, stop_loss |-> sl, take_profit |-> tp,
   pnl |-> 0, pnl_pct |-> 0, status |-> "OPEN", exit_reason |-> "None"]

\* Trade.close_trade
close_trade(t, exit_price, exit_ts, reason) ==
  [t EXCEPT !.exit_price = exit_price,
            !.exit_timestamp = exit_ts,
            !.pnl = Mul(exit_price - t.entry_price, t.position_size),
            !.pnl_pct = Div(exit_price - t.entry_price, t.entry_price) * 100,
            !.status = "CLOSED",
            !.exit_reason = reason]

IsOpen(t) == t.status = "OPEN"

OpenOnly(ts) == SelectSeq(ts, IsOpen)

\* the trades a loop over the positions closed, in the order it appended
\* them to closed_trades: open before the loop and not after it
RECURSIVE NewlyClosed(_, _)
NewlyClosed(before, after) ==
  IF before = <<>> THEN <<>>
  ELSE (IF IsOpen(Head(before)) /\ ~ IsOpen(Head(after))
          THEN << Head(after) >> ELSE <<>>)
       \o NewlyClosed(Tail(before), Tail(after))

RECURSIVE SumSeq(_)
SumSeq(s) == IF s = <<>> THEN 0 ELSE Head(s) + SumSeq(Tail(s))

(***************************************************************************)
(* RiskManager.                                                            *)
(***************************************************************************)
\* validate_trade with > for >= in the test of the position count
validate_trade_above_cap(sig, pv, current_positions) ==
  LET open_positions == Len(OpenOnly(current_positions))
      risk_amount == Mul(Abs(sig.price - sig.stop_loss), sig.position_size)
      risk_pct == Div(risk_amount, pv)
      risk == Abs(sig.price - sig.stop_loss)
      reward == Abs(sig.take_profit - sig.price)
      rr_ratio == IF risk > 0 THEN Div(reward, risk) ELSE 0
  IN /\ ~ (open_positions > MaxConcurrentPositions)
     /\ ~ (Truthy(sig.stop_loss) /\ risk_pct > max_portfolio_risk)
     /\ ~ (/\ Truthy(sig.stop_loss) /\ Truthy(sig.take_profit)
           /\ rr_ratio < risk_reward_ratio)

\* validate_trade without its reward/risk test
validate_trade_without_reward_risk(sig, pv, current_positions) ==
  LET open_positions == Len(OpenOnly(current_positions))
      risk_amount == Mul(Abs(sig.price - sig.stop_loss), sig.position_size)
      risk_pct == Div(risk_amount, pv)
  IN /\ ~ (open_positions >= MaxConcurrentPositions)
     /\ ~ (Truthy(sig.stop_loss) /\ risk_pct > max_portfolio_risk)

\* RiskManager.validate_trade: TRUE iff it returns (True, ...)
validate_trade(sig, pv, current_positions) ==
  LET open_positions == Len(OpenOnly(current_positions))
      risk_amount == Mul(Abs(sig.price - sig.stop_loss), sig.position_size)
      risk_pct == Div(risk_amount, pv)
      risk == Abs(sig.price - sig.stop_loss)
      reward == Abs(sig.take_profit - sig.price)
      rr_ratio == IF risk > 0 THEN Div(reward, risk) ELSE 0
  IN /\ ~ (open_positions >= MaxConcurrentPositions)
     /\ ~ (Truthy(sig.stop_loss) /\ risk_pct > max_portfolio_risk)
     /\ ~ (/\ Truthy(sig.stop_loss) /\ Truthy(sig.take_profit)
           /\ rr_ratio < risk_reward_ratio)

\* the step function of the confidence in calculate_position_size
SizeFraction(confidence) ==
  IF confidence >= 900 THEN 618
  ELSE IF confidence >= 700 THEN 382
  ELSE IF confidence >= 500 THEN 236
  ELSE 146

\* RiskManager.calculate_position_size, volatility = 1.0: the notional
calculate_position_size(sig, pv, current_positions) ==
  LET open == OpenOnly(current_positions)
      capital_in_positions ==
        SumSeq([k \in 1..Len(open) |-> open[k].position_size])
      available_capital == pv - capital_in_positions
      size_fraction ==
        Min2(Div(SizeFraction(sig.confidence), One), max_position_size)
      position_size == Mul(available_capital, size_fraction)
      max_risk_amount == Mul(pv, max_portfolio_risk)
      risk_per_share == Abs(sig.price - sig.stop_loss)
      max_shares ==
        IF risk_per_share > 0 THEN Div(max_risk_amount, risk_per_share) ELSE 0
  IN IF Truthy(sig.stop_loss)
       THEN Min2(position_size, Mul(max_shares, sig.price))
       ELSE position_size

\* min of data['low'] over bars lo..hi (1-based, lo <= hi)
RECURSIVE MinLow(_, _, _)
MinLow(d, lo, hi) ==
  IF lo = hi THEN d[lo].low ELSE Min2(d[lo].low, MinLow(d, lo + 1, hi))

\* RiskManager.calculate_stop_loss; index is the 1-based bar index, the
\* program's index is index - 1
calculate_stop_loss(entry_price, sig, d, index) ==
  IF Truthy(sig.stop_loss) THEN sig.stop_loss
  ELSE LET stop_loss == Mul(entry_price, One - default_stop_loss_pct)
       IN IF index - 1 >= StopLookback
            THEN Min2(stop_loss,
                      Mul(MinLow(d, index - StopLookback, index - 1), 980))
            ELSE stop_loss

\* RiskManager.calculate_take_profit
calculate_take_profit(entry_price, stop_loss, sig) ==
  IF Truthy(sig.take_profit) THEN sig.take_profit
  ELSE entry_price + Mul(Abs(entry_price - stop_loss), risk_reward_ratio)

(***************************************************************************)
(* BacktestingEngine: the steps of run_backtest as functions of the        *)
(* engine's current fields.                                                *)
(***************************************************************************)
\* what a sale of t at t.exit_price adds to cash: proceeds - commission
NetProceeds(t) ==
  LET proceeds == Mul(t.position_size, t.exit_price)
  IN proceeds - Mul(proceeds, commission)

CashFrom(closed) == SumSeq([k \in 1..Len(closed) |-> NetProceeds(closed[k])])

\* _execute_buy opening the position twice
execute_buy_twice(sig, index) ==
  LET sized == calculate_position_size(sig, portfolio_value, positions)
      entry_price == Mul(sig.price, One + slippage)
      short == sized + Mul(sized, commission) > cash
      position_size ==
        IF short THEN Mul(Div(cash, One + commission), 990) ELSE sized
      total_cost == position_size + Mul(position_size, commission)
      stop_loss == calculate_stop_loss(entry_price, sig, data, index)
      take_profit == calculate_take_profit(entry_price, stop_loss, sig)
      trade == Trade(sig.timestamp, entry_price,
                     Div(position_size, entry_price), stop_loss, take_profit)
  IN IF ~ validate_trade(sig, portfolio_value, positions)
          \/ position_size < MinPositionSize
       THEN [positions |-> positions, cash |-> cash]
       ELSE [positions |-> Append(Append(positions, trade), trade),
             cash |-> cash - total_cost]

\* _execute_buy without the early return on a rejected trade
execute_buy_unvalidated(sig, index) ==
  LET sized == calculate_position_size(sig, portfolio_value, positions)
      entry_price == Mul(sig.price, One + slippage)
      short == sized + Mul(sized, commission) > cash
      position_size ==
        IF short THEN Mul(Div(cash, One + commission), 990) ELSE sized
      total_cost == position_size + Mul(position_size, commission)
      stop_loss == calculate_stop_loss(entry_price, sig, data, index)
      take_profit == calculate_take_profit(entry_price, stop_loss, sig)
      trade == Trade(sig.timestamp, entry_price,
                     Div(position_size, entry_price), stop_loss, take_profit)
  IN IF position_size < MinPositionSize
       THEN [positions |-> positions, cash |-> cash]
       ELSE [positions |-> Append(positions, trade),
             cash |-> cash - total_cost]

\* _execute_buy without the cut to the cash at hand
execute_buy_uncut(sig, index) ==
  LET unchanged == [positions |-> positions, cash |-> cash]
      position_size == calculate_position_size(sig, portfolio_value, positions)
      entry_price == Mul(sig.price, One + slippage)
      total_cost == position_size + Mul(position_size, commission)
      stop_loss == calculate_stop_loss(entry_price, sig, data, index)
      take_profit == calculate_take_profit(entry_price, stop_loss, sig)
      trade == Trade(sig.timestamp, entry_price,
                     Div(position_size, entry_price), stop_loss, take_profit)
  IN IF ~ validate_trade(sig, portfolio_value, positions) THEN unchanged
     ELSE IF position_size < MinPositionSize THEN unchanged
     ELSE [positions |-> Append(positions, trade),
           cash |-> cash - total_cost]

\* _execute_buy turning down the order that the cash does not cover
execute_buy_rejecting_short(sig, index) ==
  LET unchanged == [positions |-> positions, cash |-> cash]
      position_size == calculate_position_size(sig, portfolio_value, positions)
      entry_price == Mul(sig.price, One + slippage)
      total_cost == position_size + Mul(position_size, commission)
      stop_loss == calculate_stop_loss(entry_price, sig, data, index)
      take_profit == calculate_take_profit(entry_price, stop_loss, sig)
      trade == Trade(sig.timestamp, entry_price,
                     Div(position_size, entry_price), stop_loss, take_profit)
  IN IF ~ validate_trade(sig, portfolio_value, positions) THEN unchanged
     ELSE IF total_cost > cash THEN unchanged
     ELSE IF position_size < MinPositionSize THEN unchanged
     ELSE [positions |-> Append(positions, trade),
           cash |-> cash - total_cost]

\* BacktestingEngine._execute_buy: the positions and the cash it leaves
execute_buy(sig, index) ==
  LET unchanged == [positions |-> positions, cash |-> cash]
      sized == calculate_position_size(sig, portfolio_value, positions)
      entry_price == Mul(sig.price, One + slippage)
      short == sized + Mul(sized, commission) > cash
      position_size ==
        IF short THEN Mul(Div(cash, One + commission), 990) ELSE sized
      total_cost == position_size + Mul(position_size, commission)
      stop_loss == calculate_stop_loss(entry_price, sig, data, index)
      take_profit == calculate_take_profit(entry_price, stop_loss, sig)
      trade == Trade(sig.timestamp, entry_price,
                     Div(position_size, entry_price), stop_loss, take_profit)
  IN IF ~ validate_trade(sig, portfolio_value, positions) THEN unchanged
     ELSE IF position_size < MinPositionSize THEN unchanged
     ELSE [positions |-> Append(positions, trade),
           cash |-> cash - total_cost]

\* _execute_sell closing the oldest position only
execute_sell_first(sig) ==
  LET exit_price == Mul(sig.price, One - slippage)
      after == [k \in 1..Len(positions) |->
                  IF k = 1
                    THEN close_trade(positions[k], exit_price, sig.timestamp,
                                     "SIGNAL")
                    ELSE positions[k]]
      closed == NewlyClosed(positions, after)
  IN IF positions = <<>>
       THEN [positions |-> positions, cash |-> cash,
             closed_trades |-> closed_trades]
       ELSE [positions |-> OpenOnly(after),
             cash |-> cash + CashFrom(closed),
             closed_trades |-> closed_trades \o closed]

\* BacktestingEngine._execute_sell
execute_sell(sig) ==
  LET exit_price == Mul(sig.price, One - slippage)
      after == [k \in 1..Len(positions) |->
                  IF IsOpen(positions[k])
                    THEN close_trade(positions[k], exit_price, sig.timestamp,
                                     "SIGNAL")
                    ELSE positions[k]]
      closed == NewlyClosed(positions, after)
  IN IF positions = <<>>
       THEN [positions |-> positions, cash |-> cash,
             closed_trades |-> closed_trades]
       ELSE [positions |-> OpenOnly(after),
             cash |-> cash + CashFrom(closed),
             closed_trades |-> closed_trades \o closed]

\* the stop-loss test against the bar's close
StopHitAtClose(p, bar) == Truthy(p.stop_loss) /\ bar.close <= p.stop_loss

\* the stop-loss test of _check_exit_conditions
StopHit(p, bar) == Truthy(p.stop_loss) /\ bar.low <= p.stop_loss

\* the take-profit test of _check_exit_conditions
TargetHit(p, bar) == Truthy(p.take_profit) /\ bar.high >= p.take_profit

\* the loop body with the take-profit test before the stop-loss test
CheckPositionTargetFirst(p, bar, ts) ==
  IF ~ IsOpen(p) THEN p
  ELSE IF TargetHit(p, bar)
    THEN close_trade(p, Mul(p.take_profit, One - slippage), ts, "TAKE_PROFIT")
  ELSE IF StopHit(p, bar)
    THEN close_trade(p, Mul(p.stop_loss, One - slippage), ts, "STOP_LOSS")
  ELSE p

\* the loop body selling at the level itself, without slippage
CheckPositionNoSlippage(p, bar, ts) ==
  IF ~ IsOpen(p) THEN p
  ELSE IF StopHit(p, bar)
    THEN close_trade(p, p.stop_loss, ts, "STOP_LOSS")
  ELSE IF TargetHit(p, bar)
    THEN close_trade(p, p.take_profit, ts, "TAKE_PROFIT")
  ELSE p

\* one iteration of the loop of _check_exit_conditions: the position after it
CheckPosition(p, bar, ts) ==
  IF ~ IsOpen(p) THEN p
  ELSE IF StopHit(p, bar)
    THEN close_trade(p, Mul(p.stop_loss, One - slippage), ts, "STOP_LOSS")
  ELSE IF TargetHit(p, bar)
    THEN close_trade(p, Mul(p.take_profit, One - slippage), ts, "TAKE_PROFIT")
  ELSE p

\* _check_exit_conditions without the rebinding of self.positions to the
\* positions still open
check_exit_conditions_unfiltered(index) ==
  LET bar == data[index]
      after == [k \in 1..Len(positions) |->
                  CheckPosition(positions[k], bar, index)]
      closed == NewlyClosed(positions, after)
  IN [positions |-> after,
      cash |-> cash + CashFrom(closed),
      closed_trades |-> closed_trades \o closed]

\* BacktestingEngine._check_exit_conditions
check_exit_conditions(index) ==
  LET bar == data[index]
      after == [k \in 1..Len(positions) |->
                  CheckPosition(positions[k], bar, index)]
      closed == NewlyClosed(positions, after)
  IN [positions |-> OpenOnly(after),
      cash |-> cash + CashFrom(closed),
      closed_trades |-> closed_trades \o closed]

\* the mark-to-market sum of _update_portfolio_value
PositionsValue(ps, current_price) ==
  LET open == OpenOnly(ps)
  IN SumSeq([k \in 1..Len(open) |-> Mul(open[k].position_size, current_price)])

\* _update_portfolio_value valuing the positions at their entry prices
update_portfolio_value_at_entry(current_price) ==
  LET open == OpenOnly(positions)
      value == cash + SumSeq([k \in 1..Len(open) |->
                               Mul(open[k].position_size, open[k].entry_price)])
  IN [portfolio_value |-> value, equity_curve |-> Append(equity_curve, value)]

\* _update_portfolio_value appending only while a position is open
update_portfolio_value_if_invested(current_price) ==
  LET value == cash + PositionsValue(positions, current_price)
  IN [portfolio_value |-> value,
      equity_curve |-> IF positions = <<>> THEN equity_curve
                       ELSE Append(equity_curve, value)]

\* BacktestingEngine._update_portfolio_value
update_portfolio_value(current_price) ==
  LET value == cash + PositionsValue(positions, current_price)
  IN [portfolio_value |-> value, equity_curve |-> Append(equity_curve, value)]

\* the end-of-data block closing the trades without appending them
close_remaining_unrecorded ==
  [positions |-> <<>>, closed_trades |-> closed_trades]

\* the end-of-data block of run_backtest
close_remaining ==
  LET final_price == data[Len(data)].close
      final_timestamp == Len(data)
      open == OpenOnly(positions)
  IN [positions |-> <<>>,
      closed_trades |->
        closed_trades \o
        [k \in 1..Len(open) |->
           close_trade(open[k], final_price, final_timestamp, "END_OF_DATA")]]

(***************************************************************************)
(* Floats that may not be numbers.  The analyzer divides by zero: a float  *)
(* is then a finite fixed-point value, an infinity or NaN.                 *)
(***************************************************************************)
Fin(x) == [kind |-> "fin", v |-> x]

PosInf == [kind |-> "inf", v |-> 0]

NegInf == [kind |-> "-inf", v |-> 0]

NaN == [kind |-> "nan", v |-> 0]

IsFinite(x) == x.kind = "fin"

Sign(x) == IF x > 0 THEN 1 ELSE IF x < 0 THEN 0 - 1 ELSE 0

\* a / b on finite floats of either sign, b # 0
SDiv(a, b) == Sign(a) * Sign(b) * Div(Abs(a), Abs(b))

\* a / b on finite floats as numpy divides: x / 0 is an infinity, 0 / 0 NaN
FloatDiv(a, b) ==
  IF b # 0 THEN Fin(SDiv(a, b))
  ELSE IF a > 0 THEN PosInf
  ELSE IF a < 0 THEN NegInf
  ELSE NaN

\* x / y on floats of any kind
NumDiv(x, y) ==
  IF x.kind = "nan" \/ y.kind = "nan" THEN NaN
  ELSE IF IsFinite(x) /\ IsFinite(y) THEN FloatDiv(x.v, y.v)
  ELSE IF IsFinite(x) THEN Fin(0)
  ELSE IF ~ IsFinite(y) THEN NaN
  ELSE IF (x.kind = "inf") = (y.v >= 0) THEN PosInf ELSE NegInf

\* k * x for a finite k > 0
NumScale(k, x) == IF IsFinite(x) THEN Fin(Mul(k, x.v)) ELSE x

\* x - k for a finite k
NumMinus(x, k) == IF IsFinite(x) THEN Fin(x.v - k) ELSE x

\* x < 0
NumNegative(x) == x.kind = "-inf" \/ (IsFinite(x) /\ x.v < 0)

\* Series.mean() of a series without NaN
SeriesMean(s) ==
  LET HasKind(k) == \E j \in DOMAIN s : s[j].kind = k
      total == SumSeq([j \in DOMAIN s |-> s[j].v])
  IN IF s = <<>> \/ (HasKind("inf") /\ HasKind("-inf")) THEN NaN
     ELSE IF HasKind("inf") THEN PosInf
     ELSE IF HasKind("-inf") THEN NegInf
     ELSE Fin(total \div Len(s))

\* the integer square root of x, between lo and hi
RECURSIVE ISqrtBetween(_, _, _)
ISqrtBetween(x, lo, hi) ==
  LET mid == (lo + hi + 1) \div 2
  IN IF lo >= hi THEN lo
     ELSE IF mid * mid <= x THEN ISqrtBetween(x, mid, hi)
     ELSE ISqrtBetween(x, lo, mid - 1)

ISqrt(x) == ISqrtBetween(x, 0, 46340)

\* Series.std() (sample standard deviation, ddof = 1): NaN for fewer than
\* two values and when a value is infinite.  Deviations wider than 20.0
\* are brought down to a coarser unit before they are squared; a deviation
\* that is not zero never rounds to zero.
SeriesStd(s) ==
  LET mean == SeriesMean(s).v
      dev == [j \in DOMAIN s |-> s[j].v - mean]
      widest == SumSeq([j \in DOMAIN s |-> Abs(dev[j])])
      unit == widest \div (20 * One) + 1
      squares == SumSeq([j \in DOMAIN s |->
                           (dev[j] \div unit) * (dev[j] \div unit)])
      root == unit * ISqrt(squares \div (Len(s) - 1))
  IN IF Len(s) < 2 \/ \E j \in DOMAIN s : ~ IsFinite(s[j]) THEN NaN
     ELSE IF \A j \in DOMAIN s : s[j].v = s[1].v THEN Fin(0)
     ELSE IF root = 0 THEN Fin(1)
     ELSE Fin(root)

(***************************************************************************)
(* PerformanceAnalyzer.                                                    *)
(***************************************************************************)
\* self.risk_free_rate = 0.02
risk_free_rate == 20

periods_per_year == 252

\* np.sqrt(252) = 15.874...
sqrt_periods_per_year == 15874

\* calculate_returns: equity_curve.pct_change().fillna(0)
calculate_returns(curve) ==
  [k \in DOMAIN curve |->
     IF k = 1 THEN Fin(0)
     ELSE LET ratio == FloatDiv(curve[k], curve[k - 1])
          IN IF ratio.kind = "nan" THEN Fin(0) ELSE NumMinus(ratio, One)]

\* returns - (self.risk_free_rate / periods_per_year), then .mean()
ExcessMean(returns) ==
  NumMinus(SeriesMean(returns), Div(risk_free_rate, periods_per_year * One))

\* PerformanceAnalyzer.calculate_sharpe_ratio
calculate_sharpe_ratio(returns) ==
  IF Len(returns) = 0 \/ SeriesStd(returns) = Fin(0) THEN Fin(0)
  ELSE NumScale(sqrt_periods_per_year,
                NumDiv(ExcessMean(returns), SeriesStd(returns)))

\* PerformanceAnalyzer.calculate_sortino_ratio
calculate_sortino_ratio(returns) ==
  LET downside_returns == SelectSeq(returns, NumNegative)
  IN IF Len(returns) = 0 THEN Fin(0)
     ELSE IF Len(downside_returns) = 0
             \/ SeriesStd(downside_returns) = Fin(0) THEN Fin(0)
     ELSE NumScale(sqrt_periods_per_year,
                   NumDiv(ExcessMean(returns), SeriesStd(downside_returns)))

\* equity_curve.expanding().max(), at position k
RunningMax(curve, k) ==
  CHOOSE m \in { curve[j] : j \in 1..k } :
    \A j \in 1..k : curve[j] <= m

\* drawdown = (equity_curve - running_max) / running_max
Drawdown(curve) ==
  [k \in DOMAIN curve |->
     FloatDiv(curve[k] - RunningMax(curve, k),
              RunningMax(curve, k))]

\* Series.min(): the least value that is not NaN, NaN when there is none
SeriesMin(s) ==
  LET numbers == { j \in DOMAIN s : s[j].kind # "nan" }
      AtMost(x, y) ==
        \/ x.kind = "-inf"
        \/ y.kind = "inf"
        \/ IsFinite(x) /\ IsFinite(y) /\ x.v <= y.v
  IN IF numbers = {} THEN NaN
     ELSE s[CHOOSE j \in numbers : \A k \in numbers : AtMost(s[j], s[k])]

\* the longest run of consecutive points in drawdown: the loop over
\* is_drawdown and max(drawdown_periods)
LongestRun(is_drawdown) ==
  LET Run(a, b) == \A k \in a..b : is_drawdown[k]
      lengths == { b - a + 1 : a, b \in DOMAIN is_drawdown }
  IN IF \A k \in DOMAIN is_drawdown : ~ is_drawdown[k] THEN 0
     ELSE CHOOSE n \in lengths :
            /\ \E a, b \in DOMAIN is_drawdown : b - a + 1 = n /\ Run(a, b)
            /\ \A a, b \in DOMAIN is_drawdown : Run(a, b) => b - a + 1 <= n

\* PerformanceAnalyzer.calculate_max_drawdown
calculate_max_drawdown(curve) ==
  IF Len(curve) = 0
  THEN [max_drawdown |-> Fin(0), max_dd_duration |-> 0]
  ELSE LET drawdown == Drawdown(curve)
       IN [max_drawdown |-> SeriesMin(drawdown),
           max_dd_duration |->
             LongestRun([k \in DOMAIN drawdown |-> NumNegative(drawdown[k])])]

IsClosed(t) == t.status = "CLOSED"

IsWinner(t) == t.pnl > 0

IsLoser(t) == t.pnl < 0

\* sum(t.pnl for t in trades)
SumPnl(trades) == SumSeq([k \in DOMAIN trades |-> trades[k].pnl])

\* the curve analyze_trades builds: 0, then the running sum of the P&L
PnlCurve(closed) ==
  << 0 >> \o [k \in DOMAIN closed |-> SumPnl(SubSeq(closed, 1, k))]

\* the metrics of a ledger without a closed trade: PerformanceMetrics()
NoMetrics ==
  [total_trades |-> 0, winning_trades |-> 0, losing_trades |-> 0,
   profit_factor |-> Fin(0), total_return |-> 0,
   sharpe_ratio |-> Fin(0), sortino_ratio |-> Fin(0),
   max_drawdown |-> Fin(0), max_drawdown_duration |-> 0]

\* PerformanceMetrics.encode_metrics: int() of an infinity or of NaN raises
encode_metrics(metrics) ==
  IF metrics.sharpe_ratio.kind = "inf" THEN "OverflowError"
  ELSE IF IsFinite(metrics.max_drawdown) THEN "none"
  ELSE IF metrics.max_drawdown.kind = "nan" THEN "ValueError"
  ELSE "OverflowError"

\* analyze_trades: gross_profit / gross_loss if gross_loss > 0 else 0
profit_factor(winning_trades, losing_trades) ==
  LET gross_profit == SumPnl(winning_trades)
      gross_loss == Abs(SumPnl(losing_trades))
  IN IF gross_loss > 0 THEN Fin(Div(gross_profit, gross_loss)) ELSE Fin(0)

\* the metrics analyze_trades computes before it encodes them
Metrics(trades) ==
  LET closed == SelectSeq(trades, IsClosed)
      curve == PnlCurve(closed)
      returns == calculate_returns(curve)
      dd == calculate_max_drawdown(curve)
  IN IF closed = <<>> THEN NoMetrics
     ELSE [total_trades |-> Len(closed),
           winning_trades |-> Len(SelectSeq(closed, IsWinner)),
           losing_trades |-> Len(SelectSeq(closed, IsLoser)),
           profit_factor |-> profit_factor(SelectSeq(closed, IsWinner),
                                           SelectSeq(closed, IsLoser)),
           total_return |-> Last(curve),
           sharpe_ratio |-> calculate_sharpe_ratio(returns),
           sortino_ratio |-> calculate_sortino_ratio(returns),
           max_drawdown |-> dd.max_drawdown,
           max_drawdown_duration |-> dd.max_dd_duration]

\* PerformanceAnalyzer.analyze_trades: the metrics, or the exception
analyze_trades(trades) ==
  IF SelectSeq(trades, IsClosed) = <<>> THEN Return(NoMetrics)
  ELSE IF encode_metrics(Metrics(trades)) = "none" THEN Return(Metrics(trades))
  ELSE Raise(encode_metrics(Metrics(trades)))

(***************************************************************************)
(* Strategies.  A strategy object is its name, the lookback_period of its  *)
(* params and the lists self.signals and self.trades.  Bar k of the model  *)
(* is data.iloc[k - 1]; a call returns the signal and leaves the object.   *)
(***************************************************************************)
\* Strategy.__init__: self.trades = [], self.signals = []
Strategy(name, lookback_period) ==
  [name |-> name, lookback_period |-> lookback_period, signals |-> <<>>,
   trades |-> <<>>]

\* return Signal(..., signal_type='HOLD', ..., position_size=0.0)
Hold(self, d, k) ==
  [signal |-> MkSignal(k, "HOLD", d[k].close, 0, None, None, One),
   strategy |-> self]

\* self.signals.append(signal); return signal
Emit(self, sig) ==
  [signal |-> sig, strategy |-> [self EXCEPT !.signals = Append(@, sig)]]

MaxOf(s) == CHOOSE x \in { s[j] : j \in DOMAIN s } : \A j \in DOMAIN s : s[j] <= x

MinOf(s) == CHOOSE x \in { s[j] : j \in DOMAIN s } : \A j \in DOMAIN s : x <= s[j]

\* Series.mean() of finite values
MeanOf(s) == SumSeq(s) \div Len(s)

\* x > t for a float x of any kind: no comparison with NaN holds
NumAbove(x, t) == x.kind = "inf" \/ (IsFinite(x) /\ x.v > t)

\* 'entry_std_multiplier': 1.618
entry_std_multiplier == 1618

\* generate_signal buying below the upper band
mean_reversion_signal_below_upper(self, d, k) ==
  LET lookback == self.lookback_period
      prices == [j \in 1..(lookback + 1) |-> d[k - lookback - 1 + j].close]
      mean_price == MeanOf(prices)
      std_price == SeriesStd([j \in DOMAIN prices |-> Fin(prices[j])])
      current_price == d[k].close
      z_score == IF NumAbove(std_price, 0)
                 THEN SDiv(current_price - mean_price, std_price.v)
                 ELSE 0
  IN IF k - 1 < lookback THEN Hold(self, d, k)
     ELSE IF z_score < entry_std_multiplier
     THEN Emit(self, MkSignal(k, "BUY", current_price, 618,
                              Mul(current_price, 950), mean_price,
                              Min2(Abs(z_score) \div 3, One)))
     ELSE IF z_score > entry_std_multiplier
     THEN Emit(self, MkSignal(k, "SELL", current_price, One, None, None,
                              Min2(z_score \div 3, One)))
     ELSE Hold(self, d, k)

\* MeanReversionStrategy.generate_signal
mean_reversion_signal(self, d, k) ==
  LET lookback == self.lookback_period
      prices == [j \in 1..(lookback + 1) |-> d[k - lookback - 1 + j].close]
      mean_price == MeanOf(prices)
      std_price == SeriesStd([j \in DOMAIN prices |-> Fin(prices[j])])
      current_price == d[k].close
      z_score == IF NumAbove(std_price, 0)
                 THEN SDiv(current_price - mean_price, std_price.v)
                 ELSE 0
  IN IF k - 1 < lookback THEN Hold(self, d, k)
     ELSE IF z_score < 0 - entry_std_multiplier
     THEN Emit(self, MkSignal(k, "BUY", current_price, 618,
                              Mul(current_price, 950), mean_price,
                              Min2(Abs(z_score) \div 3, One)))
     ELSE IF z_score > entry_std_multiplier
     THEN Emit(self, MkSignal(k, "SELL", current_price, One, None, None,
                              Min2(z_score \div 3, One)))
     ELSE Hold(self, d, k)

\* 'volume_multiplier': 1.618
volume_multiplier == 1618

\* 'breakout_threshold': 0.02
breakout_threshold == 20

\* BreakoutStrategy.generate_signal
breakout_signal(self, d, k) ==
  LET lookback == self.lookback_period
      window == SubSeq(d, k - lookback, k - 1)
      resistance == MaxOf([j \in DOMAIN window |-> window[j].high])
      support == MinOf([j \in DOMAIN window |-> window[j].low])
      price_range == resistance - support
      avg_volume == MeanOf([j \in DOMAIN window |-> window[j].volume])
      volume_surge == d[k].volume > Mul(avg_volume, volume_multiplier)
      volume_ratio == FloatDiv(d[k].volume, avg_volume)
      confidence == IF IsFinite(volume_ratio)
                    THEN Min2(volume_ratio.v \div 3, One) ELSE One
  IN IF k - 1 < lookback \/ lookback = 0 THEN Hold(self, d, k)
     ELSE IF /\ d[k].high > resistance
             /\ volume_surge
             /\ NumAbove(FloatDiv(d[k].high - resistance, price_range),
                         breakout_threshold)
     THEN Emit(self, MkSignal(k, "BUY", d[k].close, 382,
                              Mul(resistance, 980),
                              resistance + Mul(price_range, 1618),
                              confidence))
     ELSE IF /\ d[k].low < support
             /\ volume_surge
             /\ NumAbove(FloatDiv(support - d[k].low, price_range),
                         breakout_threshold)
     THEN Emit(self, MkSignal(k, "SELL", d[k].close, One, None, None,
                              confidence))
     ELSE Hold(self, d, k)

\* 'entry_levels': [0.382, 0.500, 0.618]
entry_levels == << 382, 500, 618 >>

\* FibonacciRetracementStrategy.find_swing_points: the window reaches from
\* max(0, index - lookback) to index
find_swing_points(self, d, k) ==
  LET start_idx == IF k - 1 - self.lookback_period > 0
                   THEN k - 1 - self.lookback_period ELSE 0
      window == SubSeq(d, start_idx + 1, k)
  IN [swing_high |-> MaxOf([j \in DOMAIN window |-> window[j].high]),
      swing_low |-> MinOf([j \in DOMAIN window |-> window[j].low])]

\* the entry levels whose retracement price is within 1% of the close
LevelsNear(swing, current_price) ==
  SelectSeq(entry_levels,
            LAMBDA level :
              LET level_price ==
                    swing.swing_high
                      - Mul(swing.swing_high - swing.swing_low, level)
              IN level_price > 0
                 /\ SDiv(Abs(current_price - level_price), level_price) < 10)

\* confidence=1.0 - (entry_level - 0.382) / 0.618
retracement_confidence(entry_level) == One - Div(entry_level - 382, 618)

\* FibonacciRetracementStrategy.generate_signal
fibonacci_signal(self, d, k) ==
  LET current_price == d[k].close
      swing == find_swing_points(self, d, k)
      near == LevelsNear(swing, current_price)
  IN IF k - 1 < self.lookback_period THEN Hold(self, d, k)
     ELSE IF near # <<>>
     THEN Emit(self, MkSignal(k, "BUY", current_price, 618,
                              Mul(swing.swing_low, 950),
                              swing.swing_low
                                + Mul(swing.swing_high - swing.swing_low, 1618),
                              retracement_confidence(Head(near))))
     ELSE IF current_price >= Mul(swing.swing_high, 990)
     THEN Emit(self, MkSignal(k, "SELL", current_price, One, None, None, 800))
     ELSE Hold(self, d, k)

\* LucasSequenceExitStrategy.generate_signal
lucas_exit_signal(self, d, k) == Hold(self, d, k)

\* generate_signal reading one bar further than the current one
generate_signal_ahead(self, d, k) ==
  LET seen == IF k < Len(d) THEN [d EXCEPT ![k] = d[k + 1]] ELSE d
  IN CASE self.name = "MeanReversion" -> mean_reversion_signal(self, seen, k)
       [] self.name = "Breakout" -> breakout_signal(self, seen, k)
       [] self.name = "FibonacciRetracement" -> fibonacci_signal(self, seen, k)
       [] OTHER -> lucas_exit_signal(self, seen, k)

\* strategy.generate_signal(data, index) for index = k - 1
generate_signal(self, d, k) ==
  CASE self.name = "MeanReversion" -> mean_reversion_signal(self, d, k)
    [] self.name = "Breakout" -> breakout_signal(self, d, k)
    [] self.name = "FibonacciRetracement" -> fibonacci_signal(self, d, k)
    [] OTHER -> lucas_exit_signal(self, d, k)

\* generate_lucas_sequence(n): the first n Lucas numbers 2, 1, 3, 4, 7, ...
RECURSIVE generate_lucas_sequence(_)
generate_lucas_sequence(n) ==
  IF n <= 0 THEN <<>>
  ELSE IF n = 1 THEN << 2 >>
  ELSE IF n = 2 THEN << 2, 1 >>
  ELSE LET lucas == generate_lucas_sequence(n - 1)
       IN Append(lucas, lucas[n - 1] + lucas[n - 2])

\* 'lucas_terms': 10
lucas_terms == 10

\* 'max_hold_days': 47
max_hold_days == 47

\* LucasSequenceExitStrategy.get_exit_day with the default params
\* (volatility_adjustment is True); entry_index is not read
get_exit_day(entry_index, volatility) ==
  LET lucas_sequence == generate_lucas_sequence(lucas_terms)
      lucas_idx == IF volatility < 500
                   THEN Min2(Len(lucas_sequence) - 1, 6)
                   ELSE IF volatility > 2 * One THEN 2
                   ELSE 4
      hold_days == lucas_sequence[lucas_idx + 1]
      adjusted == (hold_days * One)
                    \div (IF volatility > 500 THEN volatility ELSE 500)
  IN Min2(IF adjusted > 1 THEN adjusted ELSE 1, max_hold_days)

(***************************************************************************)
(* TiingoAPIClient: the two token buckets and the rate-limiting wrapper.   *)
(* Time is counted in ticks of half a minute, tokens and waits are floats. *)
(***************************************************************************)
\* RateLimitConfig, a constructor argument; the model runs with 5 an hour
\* and 2 a minute
max_requests_per_hour == 5
max_requests_per_minute == 2

TickSeconds == 3 * 10

Threads == 1..NumThreads

\* TokenBucket.__init__(rate, capacity): rate in tokens a second, kept in
\* tokens a tick
TokenBucket(rate_num, rate_den, capacity) ==
  [rate |-> (rate_num * TickSeconds * One) \div rate_den,
   capacity |-> capacity * One,
   tokens |-> capacity * One,
   last_update |-> 0]

\* the body of TokenBucket.consume(1) under the lock, at time t: the bucket
\* it leaves and what it returns
consume(bucket, t) ==
  LET elapsed == t - bucket.last_update
      tokens == Min2(bucket.capacity, bucket.tokens + elapsed * bucket.rate)
  IN IF tokens >= One
       THEN [bucket |-> [bucket EXCEPT !.tokens = tokens - One,
                                       !.last_update = t],
             ok |-> TRUE]
       ELSE [bucket |-> [bucket EXCEPT !.tokens = tokens,
                                       !.last_update = t],
             ok |-> FALSE]

\* TokenBucket.wait_time(1), in ticks
wait_time(bucket) ==
  IF bucket.tokens >= One THEN 0
  ELSE Div(One - bucket.tokens, bucket.rate)

\* a thread that is not inside the wrapper
NoRequest == [pc |-> "idle", wait |-> 0, wake |-> 0, taken |-> {}]

\* TiingoAPIClient.__init__
ClientConstructed ==
  /\ hourly_limiter = TokenBucket(max_requests_per_hour, 3600,
                                  max_requests_per_hour)
  /\ minute_limiter = TokenBucket(max_requests_per_minute, 60,
                                  max_requests_per_minute)
  /\ now = 0
  /\ requests = [t \in Threads |-> NoRequest]

(***************************************************************************)
(* run_backtest as a process.                                              *)
(***************************************************************************)
\* no function of the level encoder has been called
NoCall == [op |-> "none"]

\* the call has not returned
NoReturn == [error |-> "pending", value |-> None]

\* the call is waiting to be run; it is over
Pending == ret.error = "pending"

Returned == ret.error # "pending"

\* a strategy whose signals are not computed from the bars
NoStrategy == [name |-> "any", lookback_period |-> 0, signals |-> <<>>,
               trades |-> <<>>]

\* another BacktestingEngine as constructed, nothing called on it yet
SecondEngine ==
  [pc |-> "idle", outcome |-> "none", data |-> <<>>,
   columns |-> required_cols, i |-> 1, signal |-> NoSignal,
   strategy |-> NoStrategy, ret |-> NoReturn,
   cash |-> initial_capital, portfolio_value |-> initial_capital,
   positions |-> <<>>, closed_trades |-> <<>>,
   equity_curve |-> << initial_capital >>, timestamps |-> <<>>]

\* the equity table run_backtest returns: timestamps[:min_len] beside
\* equity_curve[:min_len]
equity_df(ts, curve) ==
  [k \in 1..Min2(Len(ts), Len(curve)) |->
     [timestamp |-> ts[k], equity |-> curve[k]]]

Init ==
  /\ pc = "idle"
  /\ outcome = "none"
  /\ data = <<>>
  /\ columns = required_cols
  /\ i = 1
  /\ signal = NoSignal
  \* BacktestingEngine.__init__ ends with reset()
  /\ cash = initial_capital
  /\ portfolio_value = initial_capital
  /\ positions = <<>>
  /\ closed_trades = <<>>
  /\ equity_curve = << initial_capital >>
  /\ timestamps = <<>>
  /\ call = NoCall
  /\ ret = NoReturn
  /\ strategy = NoStrategy
  /\ other = SecondEngine
  /\ ClientConstructed

\* reset leaving the ledger of the last run in place
reset_keeping_ledger ==
  /\ portfolio_value' = initial_capital
  /\ cash' = initial_capital
  /\ positions' = <<>>
  /\ closed_trades' = closed_trades
  /\ equity_curve' = << initial_capital >>
  /\ timestamps' = <<>>

\* BacktestingEngine.reset: every list is bound to a new list
reset ==
  /\ portfolio_value' = initial_capital
  /\ cash' = initial_capital
  /\ positions' = <<>>
  /\ closed_trades' = <<>>
  /\ equity_curve' = << initial_capital >>
  /\ timestamps' = <<>>

\* the column test with any() for all()
HasAnyRequiredColumn(cols) == \E col \in required_cols : col \in cols

\* the column test of run_backtest
HasRequiredColumns(cols) == \A col \in required_cols : col \in cols

\* run_backtest(data, strategy) up to the loop: reset, then the column test;
\* an engine that is idle can be run again, any number of times
RunBacktest(d, cols) ==
  /\ pc = "idle"
  /\ data' = d
  /\ columns' = cols
  /\ i' = 1
  /\ signal' = NoSignal
  /\ reset
  /\ IF ~ HasRequiredColumns(cols)
       THEN outcome' = "ValueError" /\ pc' = "idle"
       ELSE /\ outcome' = "running"
            /\ pc' = IF Len(d) = 0 THEN "finish" ELSE "signal"
  /\ UNCHANGED << encoder, other, api >>

\* loop body, first half: the timestamp, the strategy's signal and its
\* execution
ProcessSignal(sig) ==
  /\ pc = "signal"
  /\ timestamps' = Append(timestamps, i)
  /\ signal' = sig
  /\ CASE sig.signal_type = "BUY" ->
            LET r == execute_buy(sig, i)
            IN /\ positions' = r.positions
               /\ cash' = r.cash
               /\ closed_trades' = closed_trades
       [] sig.signal_type = "SELL" ->
            LET r == execute_sell(sig)
            IN /\ positions' = r.positions
               /\ cash' = r.cash
               /\ closed_trades' = r.closed_trades
       [] OTHER -> UNCHANGED << positions, cash, closed_trades >>
  /\ pc' = "exit"
  /\ UNCHANGED << outcome, data, columns, i, portfolio_value,
                  equity_curve, call, ret, other, api >>

\* strategy.generate_signal(data, i): any signal for bar i
ProcessBar ==
  /\ pc = "signal"
  /\ \E sig \in SignalsAt(i, data[i]) : ProcessSignal(sig)
  /\ UNCHANGED strategy

\* loop body: self._check_exit_conditions(data, i)
CheckExit ==
  /\ pc = "exit"
  /\ LET r == check_exit_conditions(i)
     IN /\ positions' = r.positions
        /\ cash' = r.cash
        /\ closed_trades' = r.closed_trades
  /\ pc' = "mark"
  /\ UNCHANGED << outcome, data, columns, i, signal, portfolio_value,
                  equity_curve, timestamps, call, ret,
                  strategy, other, api >>

\* loop body: self._update_portfolio_value(close), then the next iteration
UpdatePortfolio ==
  /\ pc = "mark"
  /\ LET r == update_portfolio_value(data[i].close)
     IN /\ portfolio_value' = r.portfolio_value
        /\ equity_curve' = r.equity_curve
  /\ i' = i + 1
  /\ pc' = IF i < Len(data) THEN "signal" ELSE "finish"
  /\ UNCHANGED << outcome, data, columns, signal, cash, positions,
                  closed_trades, timestamps, call, ret,
                  strategy, other, api >>

\* after the loop: close what is still open, analyze, return; an exception
\* of analyze_trades leaves run_backtest
Finish ==
  /\ pc = "finish"
  /\ LET r == close_remaining
         metrics == analyze_trades(r.closed_trades)
     IN /\ positions' = r.positions
        /\ closed_trades' = r.closed_trades
        /\ outcome' = IF metrics.error = "none" THEN "returned"
                      ELSE metrics.error
        /\ ret' = IF metrics.error # "none" THEN metrics
                  ELSE Return([metrics |-> metrics.value,
                               all_trades |-> r.closed_trades,
                               equity_df |-> equity_df(timestamps,
                                                       equity_curve)])
  /\ pc' = "idle"
  /\ UNCHANGED << data, columns, i, signal, cash, portfolio_value,
                  equity_curve, timestamps, call, strategy, other,
                  api >>

\* the caller lets go of what the last call returned
DropResult ==
  /\ pc = "idle"
  /\ Returned
  /\ ret' = NoReturn
  /\ UNCHANGED << call, run, engine, api >>

\* run_backtest on any series, once the last result is let go of
RunBacktestAny ==
  /\ Pending
  /\ \E d \in AllSeries, cols \in ColumnSets : RunBacktest(d, cols)
  /\ UNCHANGED strategy

Next ==
  \/ RunBacktestAny
  \/ ProcessBar
  \/ CheckExit
  \/ UpdatePortfolio
  \/ Finish
  \/ DropResult

Spec == Init /\ [][Next]_vars

(***************************************************************************)
(* Runs that fill up the position list: quiet bars only, on which no       *)
(* protective level is hit, and small orders.                              *)
(***************************************************************************)
QuietBar == [high |-> 10500, low |-> 9800, close |-> 10000]

CapSeries == { [k \in 1..n |-> QuietBar] : n \in 1..CapBars }

\* a low-confidence BUY (the smallest size fraction), HOLD and SELL
CapSignalsAt(ts, bar) ==
  { MkSignal(ts, "BUY", bar.close, 618, None, None, 400),
    MkSignal(ts, "HOLD", bar.close, 0, None, None, One),
    MkSignal(ts, "SELL", bar.close, One, None, None, 800) }

RunBacktestCap ==
  /\ Pending
  /\ \E d \in CapSeries : RunBacktest(d, required_cols)
  /\ UNCHANGED strategy

ProcessBarCap ==
  /\ pc = "signal"
  /\ \E sig \in CapSignalsAt(i, data[i]) : ProcessSignal(sig)
  /\ UNCHANGED strategy

NextCap ==
  \/ RunBacktestCap
  \/ ProcessBarCap
  \/ CheckExit
  \/ UpdatePortfolio
  \/ Finish
  \/ DropResult

SpecCap == Init /\ [][NextCap]_vars

(***************************************************************************)
(* Runs that probe the risk manager: short series, and BUY signals whose   *)
(* protective levels lie on both sides of its limits.                      *)
(***************************************************************************)
RiskBarSet ==
  { QuietBar, [high |-> 11500, low |-> 10400, close |-> 11000] }

RiskSeries ==
  UNION { [1..n -> RiskBarSet] : n \in 1..RiskBars }

RiskSignalsAt(ts, bar) ==
  LET c == bar.close IN
  { MkSignal(ts, "HOLD", c, 0, None, None, One),
    \* stop at half the price: the loss at the stop is large
    MkSignal(ts, "BUY", c, 618, Mul(c, 500), None, One),
    \* stop at the price itself: no risk at all
    MkSignal(ts, "BUY", c, 618, c, Mul(c, 1100), One),
    \* reward/risk 1
    MkSignal(ts, "BUY", c, 618, Mul(c, 950), Mul(c, 1050), One),
    \* reward/risk 1.617 and 1.618: just below the minimum, and the minimum
    MkSignal(ts, "BUY", c, 618, c - One, c + 1617, 600),
    MkSignal(ts, "BUY", c, 618, c - One, c + 1618, 600),
    \* reward/risk 2
    MkSignal(ts, "BUY", c, 618, Mul(c, 950), Mul(c, 1100), 600) }

RunBacktestRisk ==
  /\ Pending
  /\ \E d \in RiskSeries : RunBacktest(d, required_cols)
  /\ UNCHANGED strategy

ProcessBarRisk ==
  /\ pc = "signal"
  /\ \E sig \in RiskSignalsAt(i, data[i]) : ProcessSignal(sig)
  /\ UNCHANGED strategy

NextRisk ==
  \/ RunBacktestRisk
  \/ ProcessBarRisk
  \/ CheckExit
  \/ UpdatePortfolio
  \/ Finish
  \/ DropResult

SpecRisk == Init /\ [][NextRisk]_vars

(***************************************************************************)
(* Python integers.  n = h * 10^18 + m * 10^9 + l is << h, m, l >> with    *)
(* 0 <= m, l < 10^9; the sign is the sign of h.                            *)
(***************************************************************************)
Base == 1000 * 1000 * 1000

Big(n) == << (n \div Base) \div Base, (n \div Base) % Base, n % Base >>

BigZero == Big(0)

BigAdd(a, b) ==
  LET l == a[3] + b[3]
      m == a[2] + b[2] + (l \div Base)
  IN << a[1] + b[1] + (m \div Base), m % Base, l % Base >>

BigSub(a, b) ==
  LET l == a[3] - b[3]
      m == a[2] - b[2] + (l \div Base)
  IN << a[1] - b[1] + (m \div Base), m % Base, l % Base >>

BigLess(a, b) ==
  \/ a[1] < b[1]
  \/ a[1] = b[1] /\ a[2] < b[2]
  \/ a[1] = b[1] /\ a[2] = b[2] /\ a[3] < b[3]

BigLeq(a, b) == a = b \/ BigLess(a, b)

\* seq[k] of a Python list
At(seq, k) == seq[k + 1]

\* Python's sorted() on a list of small integers: the element at position j
\* goes to the place that counts the elements before it in the stable order
sorted(seq) ==
  LET Before(m, j) == seq[m] < seq[j] \/ (seq[m] = seq[j] /\ m < j)
      Place(j) == Cardinality({ m \in DOMAIN seq : Before(m, j) }) + 1
  IN [k \in 1..Len(seq) |-> seq[CHOOSE j \in DOMAIN seq : Place(j) = k]]

\* sum(fib[idx] for idx in indices[lo..hi]); the range is summed by halves
RECURSIVE sum_range(_, _, _, _)
sum_range(fib, indices, lo, hi) ==
  IF lo > hi THEN BigZero
  ELSE IF lo = hi THEN At(fib, indices[lo])
  ELSE LET mid == (lo + hi) \div 2
       IN BigAdd(sum_range(fib, indices, lo, mid),
                 sum_range(fib, indices, mid + 1, hi))

sum_at(fib, indices) == sum_range(fib, indices, 1, Len(indices))

\* sum(seq)
BigSum(seq) == sum_at(seq, [k \in 1..Len(seq) |-> k - 1])

\* r is the return of v; r is the exception e, and no value
Returns(r, v) == r.error = "none" /\ r.value = v

Raises(r, e) == r.error = e /\ r.value = None

(***************************************************************************)
(* ZeckendorfCompressor (mathematical_framework.py).                       *)
(***************************************************************************)
\* FibonacciPriceEncoder._generate_fibonacci: F(0..n), F(0) = 0, F(1) = 1.
\* for i in range(lo, hi + 1): fib.append(fib[i-1] + fib[i-2]), run by halves
RECURSIVE fib_append(_, _, _)
fib_append(fib, lo, hi) ==
  IF lo > hi THEN fib
  ELSE IF lo = hi THEN Append(fib, BigAdd(At(fib, lo - 1), At(fib, lo - 2)))
  ELSE LET mid == (lo + hi) \div 2
           first == fib_append(fib, lo, mid)
       IN \* the test has the first half computed before the second starts
          IF Len(first) < mid THEN first ELSE fib_append(first, mid + 1, hi)

generate_fibonacci(n) ==
  IF n < 0 THEN <<>>
  ELSE IF n = 0 THEN << Big(0) >>
  ELSE IF n = 1 THEN << Big(0), Big(1) >>
  ELSE fib_append(<< Big(0), Big(1) >>, 2, n)

\* ZeckendorfCompressor.__init__: the table of FibonacciPriceEncoder(100)
CompressorMaxIndex == 100

compressor_fib_sequence == generate_fibonacci(CompressorMaxIndex)

\* one pass of the body of the greedy loops, at index k
greedy_step(fib, k, st) ==
  IF st.stopped THEN st
  ELSE IF BigLeq(At(fib, k), st.remaining)
       THEN [indices |-> Append(st.indices, k),
             remaining |-> BigSub(st.remaining, At(fib, k)),
             stopped |-> BigSub(st.remaining, At(fib, k)) = BigZero]
       ELSE st

\* for i in range(hi, lo - 1, -1): the body; break when nothing remains.
\* The range is run by halves, the upper half first.
RECURSIVE greedy_loop(_, _, _, _)
greedy_loop(fib, hi, lo, st) ==
  IF hi < lo THEN st
  ELSE IF hi = lo THEN greedy_step(fib, hi, st)
  ELSE LET mid == (lo + hi + 1) \div 2
           upper == greedy_loop(fib, hi, mid, st)
       IN IF upper.stopped THEN upper ELSE greedy_loop(fib, mid - 1, lo, upper)

\* the loop of compress: for i in range(len(fib) - 1, 0, -1)
compress_loop(fib, value) ==
  greedy_loop(fib, Len(fib) - 1, 1,
              [indices |-> <<>>, remaining |-> value, stopped |-> FALSE]).indices

\* compress decomposing the magnitude of a negative value
compress_of_magnitude(value) ==
  IF value = BigZero THEN <<>>
  ELSE sorted(compress_loop(compressor_fib_sequence,
                IF BigLess(value, BigZero) THEN BigSub(BigZero, value)
                ELSE value))

\* ZeckendorfCompressor.compress
compress(value) ==
  IF BigLeq(value, BigZero) THEN <<>>
  ELSE sorted(compress_loop(compressor_fib_sequence, value))

\* decompress refusing only a neighbour that is exactly one higher
decompress_successor_only(indices) ==
  IF indices = <<>> THEN Return(BigZero)
  ELSE IF \E k \in 1..(Len(indices) - 1) : indices[k + 1] - indices[k] = 1
       THEN Raise("ValueError")
       ELSE Return(sum_at(compressor_fib_sequence, indices))

\* ZeckendorfCompressor.decompress
decompress(indices) ==
  IF indices = <<>> THEN Return(BigZero)
  ELSE IF \E k \in 1..(Len(indices) - 1) : indices[k + 1] - indices[k] < 2
       THEN Raise("ValueError")
       ELSE Return(sum_at(compressor_fib_sequence, indices))

(***************************************************************************)
(* zeckendorf_encode and zeckendorf_decode (backtesting_engine.py).        *)
(***************************************************************************)
\* generate_fibonacci_sequence: n terms, 1, 1, 2, 3, ...
\* for i in range(2, n): fib.append(fib[i-1] + fib[i-2])
generate_fibonacci_sequence(n) ==
  IF n <= 0 THEN <<>>
  ELSE IF n = 1 THEN << Big(1) >>
  ELSE IF n = 2 THEN << Big(1), Big(1) >>
  ELSE fib_append(<< Big(1), Big(1) >>, 2, n - 1)

\* zeckendorf_encode: fib = generate_fibonacci_sequence(50)
EncodeTerms == 50

encode_fib == generate_fibonacci_sequence(EncodeTerms)

\* the loop of zeckendorf_encode: for i in range(len(fib) - 1, -1, -1)
zeckendorf_encode_loop(fib, n) ==
  greedy_loop(fib, Len(fib) - 1, 0,
              [indices |-> <<>>, remaining |-> n, stopped |-> FALSE]).indices

zeckendorf_encode(n) ==
  IF BigLeq(n, BigZero) THEN <<>>
  ELSE sorted(zeckendorf_encode_loop(encode_fib, n))

\* max(indices)
Max(seq) == CHOOSE x \in { seq[k] : k \in DOMAIN seq } :
              \A y \in { seq[k] : k \in DOMAIN seq } : y <= x

zeckendorf_decode(indices) ==
  IF indices = <<>> THEN BigZero
  ELSE sum_at(generate_fibonacci_sequence(Max(indices) + 1), indices)

(***************************************************************************)
(* Calls of the Zeckendorf functions.                                      *)
(***************************************************************************)
\* F(101) and the 51st term: the first numbers above each table
AboveCompressorTable ==
  BigAdd(At(compressor_fib_sequence, CompressorMaxIndex),
         At(compressor_fib_sequence, CompressorMaxIndex - 1))

AboveEncodeTable ==
  BigAdd(At(encode_fib, EncodeTerms - 1), At(encode_fib, EncodeTerms - 2))

\* the integers compressed: the small ones, and those around the ends of
\* the tables and around the sum of all the terms zeckendorf_encode has
ZValues ==
  { Big(n) : n \in (0 - 2)..ZMaxValue }
    \cup { BigAdd(b, Big(d)) :
             b \in { AboveCompressorTable, AboveEncodeTable, BigSum(encode_fib) },
             d \in (0 - 1)..1 }

IndexLists == UNION { [1..n -> 0..ZMaxIndex] : n \in 0..ZMaxLen }

\* the calls made: each function on each of its inputs
ZeckendorfCalls ==
  { [op |-> o, value |-> v] : o \in { "compress", "zeckendorf_encode" },
                              v \in ZValues }
    \cup { [op |-> o, indices |-> ix] :
             o \in { "decompress", "zeckendorf_decode" }, ix \in IndexLists }

\* the state before the engine has run, with a call that has not returned
InitZeckendorf ==
  /\ pc = "idle"
  /\ outcome = "none"
  /\ data = <<>>
  /\ columns = required_cols
  /\ i = 1
  /\ signal = NoSignal
  /\ cash = initial_capital
  /\ portfolio_value = initial_capital
  /\ positions = <<>>
  /\ closed_trades = <<>>
  /\ equity_curve = << initial_capital >>
  /\ timestamps = <<>>
  /\ strategy = NoStrategy
  /\ other = SecondEngine
  /\ ClientConstructed
  /\ call \in ZeckendorfCalls
  /\ ret = NoReturn

Compress ==
  /\ call.op = "compress" /\ Pending
  /\ ret' = Return(compress(call.value))
  /\ UNCHANGED << call, run, engine, api >>

Decompress ==
  /\ call.op = "decompress" /\ Pending
  /\ ret' = decompress(call.indices)
  /\ UNCHANGED << call, run, engine, api >>

\* decompress(compress(v)): the list compress returned is decompressed
DecompressCompressed ==
  /\ call.op = "compress" /\ Returned
  /\ call' = [op |-> "decompress", indices |-> ret.value]
  /\ ret' = decompress(ret.value)
  /\ UNCHANGED << run, engine, api >>

ZeckendorfEncode ==
  /\ call.op = "zeckendorf_encode" /\ Pending
  /\ ret' = Return(zeckendorf_encode(call.value))
  /\ UNCHANGED << call, run, engine, api >>

ZeckendorfDecode ==
  /\ call.op = "zeckendorf_decode" /\ Pending
  /\ ret' = Return(zeckendorf_decode(call.indices))
  /\ UNCHANGED << call, run, engine, api >>

\* zeckendorf_decode(zeckendorf_encode(v))
ZeckendorfDecodeEncoded ==
  /\ call.op = "zeckendorf_encode" /\ Returned
  /\ call' = [op |-> "zeckendorf_decode", indices |-> ret.value]
  /\ ret' = Return(zeckendorf_decode(ret.value))
  /\ UNCHANGED << run, engine, api >>

NextZeckendorf ==
  \/ Compress
  \/ Decompress
  \/ DecompressCompressed
  \/ ZeckendorfEncode
  \/ ZeckendorfDecode
  \/ ZeckendorfDecodeEncoded

SpecZeckendorf == InitZeckendorf /\ [][NextZeckendorf]_vars

(***************************************************************************)
(* FibonacciPriceEncoder (mathematical_framework.py).  The encoder is its  *)
(* table fib_sequence = _generate_fibonacci(max_index).                    *)
(***************************************************************************)
\* the binary search of encode_price: while left < right
RECURSIVE encode_price_search(_, _, _, _)
encode_price_search(fib_sequence, price, left, right) ==
  IF left < right
  THEN LET mid == (left + right + 1) \div 2
       IN IF BigLeq(At(fib_sequence, mid), price)
          THEN encode_price_search(fib_sequence, price, mid, right)
          ELSE encode_price_search(fib_sequence, price, left, mid - 1)
  ELSE left

\* FibonacciPriceEncoder.encode_price
encode_price(fib_sequence, price) ==
  IF BigLeq(price, BigZero) THEN 0
  ELSE IF price = Big(1) THEN 1
  ELSE encode_price_search(fib_sequence, price, 0, Len(fib_sequence) - 1)

\* FibonacciPriceEncoder.decode_price
decode_price(fib_sequence, index) ==
  IF index < 0 \/ index >= Len(fib_sequence) THEN Raise("ValueError")
  ELSE Return(At(fib_sequence, index))

\* idx = current_idx + step * i for i in range(1, levels + 1)
LevelIndices(current_idx, step, levels) ==
  [k \in 1..levels |-> current_idx + step * k]

\* FibonacciPriceEncoder.find_support_resistance
find_support_resistance(fib_sequence, price, levels) ==
  LET current_idx == encode_price(fib_sequence, price)
      AtLeastZero(idx) == idx >= 0
      InTable(idx) == idx < Len(fib_sequence)
      below == SelectSeq(LevelIndices(current_idx, 0 - 1, levels), AtLeastZero)
      above == SelectSeq(LevelIndices(current_idx, 1, levels), InTable)
  IN \* self.fib_sequence[idx] beyond the end of the list
     IF \E k \in DOMAIN below : below[k] >= Len(fib_sequence)
     THEN Raise("IndexError")
     ELSE Return([support |-> [k \in DOMAIN below |-> At(fib_sequence, below[k])],
                  resistance |->
                    [k \in DOMAIN above |-> At(fib_sequence, above[k])]])

(***************************************************************************)
(* Calls of the price encoder.                                             *)
(***************************************************************************)
MaxIndices == (0 - 1)..EncMaxIndex

Prices == { Big(n) : n \in (0 - 1)..PriceMax }

EncoderCalls ==
  { [op |-> "encode_price", max_index |-> n, price |-> p] :
      n \in MaxIndices, p \in Prices }
    \cup { [op |-> "decode_price", max_index |-> n, index |-> k] :
             n \in MaxIndices, k \in (0 - 1)..(EncMaxIndex + 1) }
    \cup { [op |-> "find_support_resistance", max_index |-> n, price |-> p,
            levels |-> k] :
             n \in MaxIndices, p \in Prices, k \in 0..MaxLevels }

\* the state before the engine has run, with a call that has not returned
InitEncoder ==
  /\ pc = "idle"
  /\ outcome = "none"
  /\ data = <<>>
  /\ columns = required_cols
  /\ i = 1
  /\ signal = NoSignal
  /\ cash = initial_capital
  /\ portfolio_value = initial_capital
  /\ positions = <<>>
  /\ closed_trades = <<>>
  /\ equity_curve = << initial_capital >>
  /\ timestamps = <<>>
  /\ strategy = NoStrategy
  /\ other = SecondEngine
  /\ ClientConstructed
  /\ call \in EncoderCalls
  /\ ret = NoReturn

\* self.fib_sequence of the encoder the call is made on
Table(c) == generate_fibonacci(c.max_index)

EncodePrice ==
  /\ call.op = "encode_price" /\ Pending
  /\ ret' = Return(encode_price(Table(call), call.price))
  /\ UNCHANGED << call, run, engine, api >>

DecodePrice ==
  /\ call.op = "decode_price" /\ Pending
  /\ ret' = decode_price(Table(call), call.index)
  /\ UNCHANGED << call, run, engine, api >>

\* decode_price(encode_price(price)) on one encoder
DecodeEncoded ==
  /\ call.op = "encode_price" /\ Returned
  /\ call' = [op |-> "decode_price", max_index |-> call.max_index,
              index |-> ret.value]
  /\ ret' = decode_price(Table(call), ret.value)
  /\ UNCHANGED << run, engine, api >>

FindSupportResistance ==
  /\ call.op = "find_support_resistance" /\ Pending
  /\ ret' = find_support_resistance(Table(call), call.price, call.levels)
  /\ UNCHANGED << call, run, engine, api >>

NextEncoder ==
  \/ EncodePrice
  \/ DecodePrice
  \/ DecodeEncoded
  \/ FindSupportResistance

SpecEncoder == InitEncoder /\ [][NextEncoder]_vars

(***************************************************************************)
(* LucasTimeEncoder (mathematical_framework.py).  The encoder is its table *)
(* lucas_sequence = _generate_lucas(max_index).                            *)
(***************************************************************************)
\* int % d for a small d > 0
BigMod(a, d) ==
  ((((a[1] % d) * (Base % d) + a[2]) % d) * (Base % d) + a[3]) % d

\* LucasTimeEncoder._generate_lucas: L(0..n), L(0) = 2, L(1) = 1
generate_lucas(n) ==
  IF n < 0 THEN <<>>
  ELSE IF n = 0 THEN << Big(2) >>
  ELSE IF n = 1 THEN << Big(2), Big(1) >>
  ELSE fib_append(<< Big(2), Big(1) >>, 2, n)

\* LucasTimeEncoder.__init__: max_index = 100
LucasDefaultMaxIndex == 100

default_lucas_sequence == generate_lucas(LucasDefaultMaxIndex)

\* the binary search of encode_time: while left < right
RECURSIVE encode_time_search(_, _, _, _)
encode_time_search(lucas_sequence, time_units, left, right) ==
  IF left < right
  THEN LET mid == (left + right + 1) \div 2
       IN IF BigLeq(At(lucas_sequence, mid), time_units)
          THEN encode_time_search(lucas_sequence, time_units, mid, right)
          ELSE encode_time_search(lucas_sequence, time_units, left, mid - 1)
  ELSE left

\* LucasTimeEncoder.encode_time
encode_time(lucas_sequence, time_units) ==
  IF BigLeq(time_units, BigZero) THEN 0
  ELSE encode_time_search(lucas_sequence, time_units, 0,
                          Len(lucas_sequence) - 1)

\* LucasTimeEncoder.is_nash_equilibrium_point
is_nash_equilibrium_point(lucas_sequence, time_index) ==
  IF time_index < 0 \/ time_index >= Len(lucas_sequence) THEN FALSE
  ELSE BigMod(At(lucas_sequence, time_index), 3) = 0

\* the loop of next_equilibrium_time: for idx in range(idx, len(lucas_sequence))
RECURSIVE equilibrium_scan(_, _)
equilibrium_scan(lucas_sequence, idx) ==
  IF idx >= Len(lucas_sequence) THEN Big(0 - 1)
  ELSE IF is_nash_equilibrium_point(lucas_sequence, idx)
       THEN At(lucas_sequence, idx)
       ELSE equilibrium_scan(lucas_sequence, idx + 1)

\* next_equilibrium_time starting its scan at the current index itself
next_equilibrium_time_from_current(lucas_sequence, current_time) ==
  equilibrium_scan(lucas_sequence, encode_time(lucas_sequence, current_time))

\* LucasTimeEncoder.next_equilibrium_time
next_equilibrium_time(lucas_sequence, current_time) ==
  equilibrium_scan(lucas_sequence,
                   encode_time(lucas_sequence, current_time) + 1)

(***************************************************************************)
(* Calls of the Lucas encoder.                                             *)
(***************************************************************************)
LucasMaxIndices == ((0 - 1)..LucasMaxIndex) \cup { LucasDefaultMaxIndex }

\* self.lucas_sequence of the encoder the call is made on
LucasTable(c) ==
  IF c.max_index = LucasDefaultMaxIndex THEN default_lucas_sequence
  ELSE generate_lucas(c.max_index)

\* the times asked about: the small ones, and those around the last three
\* entries of the default table
Times ==
  { Big(n) : n \in (0 - 1)..TimeMax }
    \cup { BigAdd(At(default_lucas_sequence, LucasDefaultMaxIndex - k), Big(d)) :
             k \in 0..2, d \in (0 - 1)..1 }

LucasCalls ==
  { [op |-> "encode_time", max_index |-> n, time_units |-> t] :
      n \in LucasMaxIndices, t \in Times }
    \cup { [op |-> "is_nash_equilibrium_point", max_index |-> n,
            time_index |-> k] :
             n \in LucasMaxIndices, k \in (0 - 1)..(LucasMaxIndex + 1) }
    \cup { [op |-> "next_equilibrium_time", max_index |-> n,
            current_time |-> t] :
             n \in LucasMaxIndices, t \in Times }

\* the engine as constructed: BacktestingEngine.__init__ ends with reset()
Constructed ==
  /\ pc = "idle"
  /\ outcome = "none"
  /\ data = <<>>
  /\ columns = required_cols
  /\ i = 1
  /\ signal = NoSignal
  /\ cash = initial_capital
  /\ portfolio_value = initial_capital
  /\ positions = <<>>
  /\ closed_trades = <<>>
  /\ equity_curve = << initial_capital >>
  /\ timestamps = <<>>
  /\ strategy = NoStrategy
  /\ other = SecondEngine
  /\ ClientConstructed

InitLucas ==
  /\ Constructed
  /\ call \in LucasCalls
  /\ ret = NoReturn

EncodeTime ==
  /\ call.op = "encode_time" /\ Pending
  /\ ret' = Return(encode_time(LucasTable(call), call.time_units))
  /\ UNCHANGED << call, run, engine, api >>

IsNashEquilibriumPoint ==
  /\ call.op = "is_nash_equilibrium_point" /\ Pending
  /\ ret' = Return(is_nash_equilibrium_point(LucasTable(call), call.time_index))
  /\ UNCHANGED << call, run, engine, api >>

NextEquilibriumTime ==
  /\ call.op = "next_equilibrium_time" /\ Pending
  /\ ret' = Return(next_equilibrium_time(LucasTable(call), call.current_time))
  /\ UNCHANGED << call, run, engine, api >>

NextLucas ==
  \/ EncodeTime
  \/ IsNashEquilibriumPoint
  \/ NextEquilibriumTime

SpecLucas == InitLucas /\ [][NextLucas]_vars

(***************************************************************************)
(* Calls of the PerformanceAnalyzer.                                       *)
(***************************************************************************)
\* exit prices of a trade entered at 10.0
ExitPrices == { 9 * One, 10 * One, 11 * One, 12 * One }

\* one share bought at 10.0 and sold at exit_price
ClosedTrade(exit_price) ==
  close_trade(Trade(0, 10 * One, One, None, None), exit_price, 1, "SIGNAL")

SeqsOver(S) == UNION { [1..n -> S] : n \in 0..MaxTrades }

Ledgers ==
  { [k \in DOMAIN exits |-> ClosedTrade(exits[k])] : exits \in SeqsOver(ExitPrices) }

\* period returns of -2%, -1%, 0, 1%
ReturnSeries ==
  { [k \in DOMAIN s |-> Fin(s[k])] : s \in SeqsOver({ 0 - 20, 0 - 10, 0, 10 }) }

\* curves of an account that may be overdrawn
Curves == SeqsOver({ (0 - 5) * One, 0, 5 * One, 10 * One })

AnalyzerCalls ==
  { [op |-> "analyze_trades", trades |-> l] : l \in Ledgers }
    \cup { [op |-> "calculate_sharpe_ratio", returns |-> r] : r \in ReturnSeries }
    \cup { [op |-> "calculate_sortino_ratio", returns |-> r] : r \in ReturnSeries }
    \cup { [op |-> "calculate_max_drawdown", curve |-> c] : c \in Curves }

InitAnalyzer ==
  /\ Constructed
  /\ call \in AnalyzerCalls
  /\ ret = NoReturn

AnalyzeTrades ==
  /\ call.op = "analyze_trades" /\ Pending
  /\ ret' = analyze_trades(call.trades)
  /\ UNCHANGED << call, run, engine, api >>

CalculateSharpeRatio ==
  /\ call.op = "calculate_sharpe_ratio" /\ Pending
  /\ ret' = Return(calculate_sharpe_ratio(call.returns))
  /\ UNCHANGED << call, run, engine, api >>

CalculateSortinoRatio ==
  /\ call.op = "calculate_sortino_ratio" /\ Pending
  /\ ret' = Return(calculate_sortino_ratio(call.returns))
  /\ UNCHANGED << call, run, engine, api >>

CalculateMaxDrawdown ==
  /\ call.op = "calculate_max_drawdown" /\ Pending
  /\ ret' = Return(calculate_max_drawdown(call.curve))
  /\ UNCHANGED << call, run, engine, api >>

NextAnalyzer ==
  \/ AnalyzeTrades
  \/ CalculateSharpeRatio
  \/ CalculateSortinoRatio
  \/ CalculateMaxDrawdown

SpecAnalyzer == InitAnalyzer /\ [][NextAnalyzer]_vars

(***************************************************************************)
(* Calls of generate_signal.                                               *)
(***************************************************************************)
\* a quiet bar, a bar breaking upwards and one breaking downwards, both on
\* three times the volume
StrategyBars ==
  { [high |-> 10500, low |-> 9800,  close |-> 10000, volume |-> 100],
    [high |-> 12000, low |-> 11000, close |-> 11900, volume |-> 300],
    [high |-> 9900,  low |-> 8000,  close |-> 8200,  volume |-> 300] }

QuietBars(n) ==
  [k \in 1..n |->
     [high |-> 10500, low |-> 9800,  close |-> 10000, volume |-> 100]]

\* the short series of any bars, and the series of a quiet lookback period
\* and two bars more
StrategySeries ==
  UNION { [1..n -> StrategyBars] : n \in 1..StratBars }
    \cup { QuietBars(MeanLookback) \o << x, y >> : x, y \in StrategyBars }

\* the strategies as constructed, with params={'lookback_period': ...}
FreshStrategies ==
  { Strategy("MeanReversion", MeanLookback),
    Strategy("Breakout", 2),
    Strategy("FibonacciRetracement", 2),
    Strategy("LucasSequenceExit", 0) }

\* a series on whose last bar every entry strategy emits a signal
EarlierSeries ==
  QuietBars(MeanLookback)
    \o << [high |-> 12000, low |-> 11000, close |-> 11900, volume |-> 300] >>

\* the strategies as constructed and as an earlier call has left them
StrategyObjects ==
  FreshStrategies
    \cup { generate_signal(s, EarlierSeries, Len(EarlierSeries)).strategy :
             s \in FreshStrategies }

StrategyCalls ==
  UNION { { [op |-> "generate_signal", self |-> s, data |-> d, index |-> k] :
              s \in StrategyObjects, k \in 1..Len(d) } :
          d \in StrategySeries }

InitStrategy ==
  /\ Constructed
  /\ call \in StrategyCalls
  /\ ret = NoReturn

GenerateSignal ==
  /\ call.op = "generate_signal" /\ Pending
  /\ ret' = Return(generate_signal(call.self, call.data, call.index))
  /\ UNCHANGED << call, run, engine, api >>

NextStrategy == GenerateSignal

SpecStrategy == InitStrategy /\ [][NextStrategy]_vars

(***************************************************************************)
(* run_backtest with the mean reversion strategy of the default lookback   *)
(* period, on flat series and on a flat series that ends with a dip.       *)
(***************************************************************************)
\* 'lookback_period': 20
DefaultLookback == 20

FlatBar(price) ==
  [high |-> price, low |-> price, close |-> price, volume |-> 100]

FlatSeries(price) == [k \in 1..FlatBars |-> FlatBar(price)]

DipSeries ==
  [k \in 1..(DefaultLookback + 2) |->
     IF k = DefaultLookback + 1
     THEN [high |-> 9900, low |-> 8000, close |-> 8200, volume |-> 300]
     ELSE FlatBar(10 * One)]

MeanReversionSeries ==
  { FlatSeries(10 * One), FlatSeries(20 * One), DipSeries }

IsFlat(d) ==
  \A k \in DOMAIN d :
    d[k].close = d[1].close /\ d[k].high = d[1].close /\ d[k].low = d[1].close

RunBacktestMeanReversion ==
  /\ Pending
  /\ \E d \in MeanReversionSeries : RunBacktest(d, required_cols)
  /\ strategy' = Strategy("MeanReversion", DefaultLookback)

\* loop body, first half: signal = strategy.generate_signal(data, i)
ProcessBarStrategy ==
  /\ pc = "signal"
  /\ LET r == generate_signal(strategy, data, i)
     IN /\ ProcessSignal(r.signal)
        /\ strategy' = r.strategy

NextMeanReversion ==
  \/ RunBacktestMeanReversion
  \/ ProcessBarStrategy
  \/ CheckExit
  \/ UpdatePortfolio
  \/ Finish
  \/ DropResult

SpecMeanReversion == Init /\ [][NextMeanReversion]_vars

(***************************************************************************)
(* run_backtest on quiet bars, with a strategy that buys or holds and with *)
(* the Lucas exit strategy.                                                *)
(***************************************************************************)
HoldSeries == { [k \in 1..n |-> QuietBar] : n \in 1..HoldBars }

HoldSignalsAt(ts, bar) ==
  { MkSignal(ts, "BUY", bar.close, 618, None, None, 400),
    MkSignal(ts, "HOLD", bar.close, 0, None, None, One) }

RunBacktestHold ==
  /\ Pending
  /\ \E d \in HoldSeries : RunBacktest(d, required_cols)
  /\ strategy' \in { NoStrategy, Strategy("LucasSequenceExit", 0) }

ProcessBarHold ==
  /\ pc = "signal"
  /\ IF strategy = NoStrategy
     THEN /\ \E sig \in HoldSignalsAt(i, data[i]) : ProcessSignal(sig)
          /\ UNCHANGED strategy
     ELSE LET r == generate_signal(strategy, data, i)
          IN /\ ProcessSignal(r.signal)
             /\ strategy' = r.strategy

NextHold ==
  \/ RunBacktestHold
  \/ ProcessBarHold
  \/ CheckExit
  \/ UpdatePortfolio
  \/ Finish
  \/ DropResult

SpecHold == Init /\ [][NextHold]_vars

(***************************************************************************)
(* run_backtest again and again on one engine, the caller keeping what the *)
(* last call returned (run_multi_strategy_test).                           *)
(***************************************************************************)
ReuseSeries ==
  UNION { [1..n -> { [high |-> 10500, low |-> 9800,  close |-> 10000],
                     [high |-> 11500, low |-> 10400, close |-> 11000] }] :
          n \in 0..ReuseBars }

\* HOLD, SELL, and a BUY with a stop 5% below and a target 10% above
ReuseSignalsAt(ts, bar) ==
  { MkSignal(ts, "HOLD", bar.close, 0, None, None, One),
    MkSignal(ts, "SELL", bar.close, One, None, None, 800),
    MkSignal(ts, "BUY", bar.close, 618, Mul(bar.close, 950),
             Mul(bar.close, 1100), 600) }

RunBacktestAgain ==
  /\ \E d \in ReuseSeries, cols \in ColumnSets : RunBacktest(d, cols)
  /\ UNCHANGED strategy

ProcessBarReuse ==
  /\ pc = "signal"
  /\ \E sig \in ReuseSignalsAt(i, data[i]) : ProcessSignal(sig)
  /\ UNCHANGED strategy

NextReuse ==
  \/ RunBacktestAgain
  \/ ProcessBarReuse
  \/ CheckExit
  \/ UpdatePortfolio
  \/ Finish

SpecReuse == Init /\ [][NextReuse]_vars

(***************************************************************************)
(* Two engines, each with its caller and its strategy object; the steps of *)
(* their runs interleave.  The variables hold the engine whose step is     *)
(* next, other holds the engine set aside.                                 *)
(***************************************************************************)
\* series on which the retracement strategy holds, buys and sells
ConcurrentSeries ==
  LET quiet == [high |-> 10500, low |-> 9800,  close |-> 10000, volume |-> 100]
      up == [high |-> 12000, low |-> 11000, close |-> 11900, volume |-> 300]
      down == [high |-> 9900,  low |-> 8000,  close |-> 8200,  volume |-> 300]
  IN { << quiet, quiet >>,
       << up, down, quiet >>,
       << up, down, quiet, up >>,
       << up, down, quiet, down >> }

\* instance attributes with cash as an attribute of the class
SwitchSharingCash ==
  /\ other' = [pc |-> pc, outcome |-> outcome, data |-> data,
               columns |-> columns, i |-> i, signal |-> signal,
               strategy |-> strategy, ret |-> ret,
               cash |-> cash, portfolio_value |-> portfolio_value,
               positions |-> positions, closed_trades |-> closed_trades,
               equity_curve |-> equity_curve, timestamps |-> timestamps]
  /\ pc' = other.pc
  /\ outcome' = other.outcome
  /\ data' = other.data
  /\ columns' = other.columns
  /\ i' = other.i
  /\ signal' = other.signal
  /\ strategy' = other.strategy
  /\ ret' = other.ret
  /\ cash' = cash
  /\ portfolio_value' = other.portfolio_value
  /\ positions' = other.positions
  /\ closed_trades' = other.closed_trades
  /\ equity_curve' = other.equity_curve
  /\ timestamps' = other.timestamps
  /\ UNCHANGED << call, api >>

\* the next step is the other engine's: every attribute set in __init__ and
\* reset is an attribute of the instance
Switch ==
  /\ other' = [pc |-> pc, outcome |-> outcome, data |-> data,
               columns |-> columns, i |-> i, signal |-> signal,
               strategy |-> strategy, ret |-> ret,
               cash |-> cash, portfolio_value |-> portfolio_value,
               positions |-> positions, closed_trades |-> closed_trades,
               equity_curve |-> equity_curve, timestamps |-> timestamps]
  /\ pc' = other.pc
  /\ outcome' = other.outcome
  /\ data' = other.data
  /\ columns' = other.columns
  /\ i' = other.i
  /\ signal' = other.signal
  /\ strategy' = other.strategy
  /\ ret' = other.ret
  /\ cash' = other.cash
  /\ portfolio_value' = other.portfolio_value
  /\ positions' = other.positions
  /\ closed_trades' = other.closed_trades
  /\ equity_curve' = other.equity_curve
  /\ timestamps' = other.timestamps
  /\ UNCHANGED << call, api >>

RunBacktestConcurrent ==
  /\ Pending
  /\ \E d \in ConcurrentSeries : RunBacktest(d, required_cols)
  /\ strategy' = Strategy("FibonacciRetracement", 2)

ProcessBarConcurrent ==
  /\ pc = "signal"
  /\ LET r == generate_signal(strategy, data, i)
     IN /\ ProcessSignal(r.signal)
        /\ strategy' = r.strategy

NextConcurrent ==
  \/ RunBacktestConcurrent
  \/ ProcessBarConcurrent
  \/ CheckExit
  \/ UpdatePortfolio
  \/ Finish
  \/ DropResult
  \/ Switch

SpecConcurrent == Init /\ [][NextConcurrent]_vars

(***************************************************************************)
(* AgentDBIntegration.store_strategy: the learning store is a command run  *)
(* out of process.                                                         *)
(***************************************************************************)
\* x < k as Python compares floats: False for NaN
NumBelow(x, k) == x.kind = "-inf" \/ (IsFinite(x) /\ x.v < k)

\* min(x, 1.0): x unless 1.0 < x
MinWithOne(x) ==
  IF x.kind = "inf" \/ (IsFinite(x) /\ One < x.v) THEN Fin(One) ELSE x

\* x / 3.0
Third(x) == IF IsFinite(x) THEN Fin(x.v \div 3) ELSE x

\* the command line of 'npx agentdb reflexion store'
StoreCommand(name, metrics) ==
  [command |-> "reflexion store",
   session_id |-> "backtesting",
   strategy_name |-> name,
   verdict_score |-> MinWithOne(Third(metrics.sharpe_ratio)),
   success |-> metrics.total_return > 0,
   trajectory |-> [strategy_name |-> name,
                   total_return |-> metrics.total_return,
                   sharpe_ratio |-> metrics.sharpe_ratio,
                   max_drawdown |-> metrics.max_drawdown,
                   total_trades |-> metrics.total_trades]]

\* store_strategy(strategy, metrics) on an integration whose
\* self.agentdb_available is given; subprocess.run ends "ok" (returncode 0),
\* "failed" (another returncode) or "raised".  The result and the commands
\* that were run.
store_strategy(agentdb_available, name, metrics, subprocess_run) ==
  IF ~ agentdb_available THEN [result |-> FALSE, commands |-> <<>>]
  ELSE IF metrics.total_return <= 0 \/ NumBelow(metrics.sharpe_ratio, One)
    THEN [result |-> FALSE, commands |-> <<>>]
  ELSE [result |-> subprocess_run = "ok",
        commands |-> << StoreCommand(name, metrics) >>]

\* the metrics analyze_trades returns for the ledgers, and the two records
\* of the tests: (5000.0, 2.5) and (-1000.0, 0.5)
StoreMetrics ==
  { analyze_trades(l).value :
      l \in { t \in Ledgers : analyze_trades(t).error = "none" } }
    \cup { [NoMetrics EXCEPT !.total_return = 5000 * One,
                             !.sharpe_ratio = Fin(2500),
                             !.total_trades = 20],
           [NoMetrics EXCEPT !.total_return = (0 - 1000) * One,
                             !.sharpe_ratio = Fin(500),
                             !.total_trades = 10] }

StoreCalls ==
  { [op |-> "store_strategy", agentdb_available |-> a,
     name |-> "FibonacciRetracement", metrics |-> m, subprocess_run |-> r] :
      a \in BOOLEAN, m \in StoreMetrics, r \in { "ok", "failed", "raised" } }

InitStore ==
  /\ Constructed
  /\ call \in StoreCalls
  /\ ret = NoReturn

StoreStrategy ==
  /\ call.op = "store_strategy" /\ Pending
  /\ ret' = Return(store_strategy(call.agentdb_available, call.name,
                                  call.metrics, call.subprocess_run))
  /\ UNCHANGED << call, run, engine, api >>

NextStore == StoreStrategy

SpecStore == InitStore /\ [][NextStore]_vars

(***************************************************************************)
(* Concurrent requests through the rate limiter.  A step of a thread is    *)
(* one section under a bucket's lock, or the sleep between them.           *)
(***************************************************************************)
\* wrapper: self.hourly_limiter.wait_time()
HourlyWaitTime(t) ==
  /\ requests[t].pc = "idle"
  /\ requests' = [requests EXCEPT ![t] =
                    [pc |-> "wait_time_minute",
                     wait |-> wait_time(hourly_limiter),
                     wake |-> 0, taken |-> {}]]
  /\ UNCHANGED << hourly_limiter, minute_limiter, now, call, ret, run,
                  engine >>

\* wrapper: self.minute_limiter.wait_time(), max_wait and time.sleep
MinuteWaitTime(t) ==
  /\ requests[t].pc = "wait_time_minute"
  /\ LET w == wait_time(minute_limiter)
         max_wait == IF requests[t].wait >= w THEN requests[t].wait ELSE w
     IN requests' = [requests EXCEPT ![t] =
                       [pc |-> IF max_wait > 0 THEN "sleep"
                               ELSE "consume_hourly",
                        wait |-> max_wait,
                        wake |-> now * One + max_wait, taken |-> {}]]
  /\ UNCHANGED << hourly_limiter, minute_limiter, now, call, ret, run,
                  engine >>

\* time.sleep(max_wait) returns, not before max_wait has passed
Wake(t) ==
  /\ requests[t].pc = "sleep"
  /\ now * One >= requests[t].wake
  /\ requests' = [requests EXCEPT ![t].pc = "consume_hourly"]
  /\ UNCHANGED << hourly_limiter, minute_limiter, now, call, ret, run,
                  engine >>

\* wrapper: self.hourly_limiter.consume(), the left operand of 'and'
HourlyConsume(t) ==
  /\ requests[t].pc = "consume_hourly"
  /\ LET r == consume(hourly_limiter, now)
     IN /\ hourly_limiter' = r.bucket
        /\ requests' = [requests EXCEPT ![t].pc =
                          IF r.ok THEN "consume_minute" ELSE "refused",
                        ![t].taken = IF r.ok THEN { "hourly" } ELSE {}]
  /\ UNCHANGED << minute_limiter, now, call, ret, run, engine >>

\* wrapper: self.minute_limiter.consume(), evaluated when the left operand
\* was true; then func is called or RateLimitExceeded is raised
MinuteConsume(t) ==
  /\ requests[t].pc = "consume_minute"
  /\ LET r == consume(minute_limiter, now)
     IN /\ minute_limiter' = r.bucket
        /\ requests' = [requests EXCEPT ![t].pc =
                          IF r.ok THEN "admitted" ELSE "refused",
                        ![t].taken = IF r.ok THEN { "hourly", "minute" }
                                     ELSE requests[t].taken]
  /\ UNCHANGED << hourly_limiter, now, call, ret, run, engine >>

\* the call is over, the thread may make its next one
Done(t) ==
  /\ requests[t].pc \in { "admitted", "refused" }
  /\ requests' = [requests EXCEPT ![t] = NoRequest]
  /\ UNCHANGED << hourly_limiter, minute_limiter, now, call, ret, run,
                  engine >>

\* time passes
Tick ==
  /\ now < MaxTime
  /\ now' = now + 1
  /\ UNCHANGED << hourly_limiter, minute_limiter, requests, call, ret,
                  run, engine >>

NextClient ==
  \/ \E t \in Threads : HourlyWaitTime(t)
  \/ \E t \in Threads : MinuteWaitTime(t)
  \/ \E t \in Threads : Wake(t)
  \/ \E t \in Threads : HourlyConsume(t)
  \/ \E t \in Threads : MinuteConsume(t)
  \/ \E t \in Threads : Done(t)
  \/ Tick

SpecClient == Init /\ [][NextClient]_vars

(***************************************************************************)
(* Properties.                                                             *)
(***************************************************************************)

\* the trades of sequence ts entered on the bar with timestamp t
EnteredAt(ts, t) == { k \in 1..Len(ts) : ts[k].entry_timestamp = t }

\* both protective levels of p lie inside the bar's range
BothHit(p, bar) == bar.low <= p.stop_loss /\ bar.high >= p.take_profit

\* the shares of every position still open, valued at price
OpenSharesValue(price) ==
  SumSeq([k \in 1..Len(positions) |-> Mul(positions[k].position_size, price)])

\* C1: after every processed bar the last entry of the equity curve is the
\* cash plus the open positions' shares valued at that bar's close.
CashConservation ==
  (pc \in {"signal", "finish"} /\ i > 1)
    => Last(equity_curve) = cash + OpenSharesValue(data[i - 1].close)

CashConservationWitness ==
  pc = "signal" /\ i > 2 /\ Len(positions) >= 1 /\ Len(closed_trades) >= 1

\* C2: a position that is open when the bar's protective levels are checked,
\* on a bar whose range holds both its stop and its target, is closed on that
\* bar as STOP_LOSS; no trade closed on such a bar is a TAKE_PROFIT.
StopPrecedence ==
  [][ pc = "exit" =>
        /\ \A k \in 1..Len(positions) :
             BothHit(positions[k], data[i]) =>
               /\ EnteredAt(positions', positions[k].entry_timestamp) = {}
               /\ \E j \in EnteredAt(closed_trades', positions[k].entry_timestamp) :
                    /\ closed_trades'[j].exit_reason = "STOP_LOSS"
                    /\ closed_trades'[j].exit_timestamp = i
                    /\ closed_trades'[j].status = "CLOSED"
        /\ \A j \in 1..Len(closed_trades') :
             (/\ closed_trades'[j].exit_timestamp = i
              /\ BothHit(closed_trades'[j], data[i]))
               => closed_trades'[j].exit_reason # "TAKE_PROFIT" ]_vars

\* a position opened and stopped out on one bar that also reached its target
StopPrecedenceWitness ==
  /\ pc = "mark"
  /\ \E j \in 1..Len(closed_trades) :
       /\ closed_trades[j].entry_timestamp = i
       /\ closed_trades[j].exit_timestamp = i
       /\ closed_trades[j].exit_reason = "STOP_LOSS"
       /\ BothHit(closed_trades[j], data[i])

\* C3: no bar opens more than one position: among the open positions and the
\* closed trades at most one was entered on any one bar.
AtMostOneEntryPerBar ==
  \A t \in 1..Len(data) :
    Cardinality(EnteredAt(positions, t))
      + Cardinality(EnteredAt(closed_trades, t)) <= 1

AtMostOneEntryPerBarWitness ==
  pc = "exit" /\ signal.signal_type = "BUY" /\ Len(positions) >= 2
  /\ EnteredAt(positions, i) # {}

\* C4: a SELL with positions open closes every one of them on that bar, as
\* SIGNAL, at signal.price * (1 - slippage), and leaves none open.
SellFlattensAll ==
  [][ (pc = "signal" /\ signal'.signal_type = "SELL" /\ positions # <<>>) =>
        /\ positions' = <<>>
        /\ Len(closed_trades') = Len(closed_trades) + Len(positions)
        /\ \A k \in 1..Len(positions) :
             LET c == closed_trades'[Len(closed_trades) + k]
             IN /\ c.entry_timestamp = positions[k].entry_timestamp
                /\ c.status = "CLOSED"
                /\ c.exit_reason = "SIGNAL"
                /\ c.exit_timestamp = i
                /\ c.exit_price = Mul(signal'.price, One - slippage) ]_vars

SellFlattensAllWitness ==
  /\ pc = "exit" /\ signal.signal_type = "SELL" /\ positions = <<>>
  /\ Cardinality({ j \in 1..Len(closed_trades) :
                     /\ closed_trades[j].exit_reason = "SIGNAL"
                     /\ closed_trades[j].exit_timestamp = i }) >= 2

\* C5: when run_backtest finishes, every position still open after the last
\* bar is closed at the last bar's close as END_OF_DATA and appended to the
\* ledger, and no position is left.
EndOfDataClose ==
  [][ pc = "finish" =>
        /\ positions' = <<>>
        /\ Len(closed_trades') = Len(closed_trades) + Len(positions)
        /\ \A k \in 1..Len(closed_trades) : closed_trades'[k] = closed_trades[k]
        /\ \A k \in 1..Len(positions) :
             LET c == closed_trades'[Len(closed_trades) + k]
             IN /\ c.entry_timestamp = positions[k].entry_timestamp
                /\ c.status = "CLOSED"
                /\ c.exit_reason = "END_OF_DATA"
                /\ c.exit_timestamp = Len(data)
                /\ c.exit_price = data[Len(data)].close ]_vars

EndOfDataCloseWitness ==
  /\ outcome = "returned" /\ positions = <<>>
  /\ \E j \in 1..Len(closed_trades) :
       closed_trades[j].exit_reason = "END_OF_DATA"

\* C6: the equity curve holds the seed and one value per processed bar:
\* i values while bar i is being processed, len(data) + 1 after the run.
EquityCurveLength ==
  /\ outcome = "running" => Len(equity_curve) = i
  /\ outcome = "returned" => Len(equity_curve) = Len(data) + 1

\* a finished run of two bars or more with no fill at all
EquityCurveLengthWitness ==
  outcome = "returned" /\ Len(data) >= 2 /\ closed_trades = <<>>

\* C7 as stated: a stop-loss exit is priced at the stop, a take-profit exit
\* at the target.
ProtectiveExitAtLevel ==
  \A j \in 1..Len(closed_trades) :
    LET c == closed_trades[j]
    IN /\ c.exit_reason = "STOP_LOSS" => c.exit_price = c.stop_loss
       /\ c.exit_reason = "TAKE_PROFIT" => c.exit_price = c.take_profit

\* C7 amended: a stop-loss exit is priced at stop_loss * (1 - slippage), a
\* take-profit exit at take_profit * (1 - slippage).
ProtectiveExitSlipped ==
  \A j \in 1..Len(closed_trades) :
    LET c == closed_trades[j]
    IN /\ c.exit_reason = "STOP_LOSS"
            => c.exit_price = Mul(c.stop_loss, One - slippage)
       /\ c.exit_reason = "TAKE_PROFIT"
            => c.exit_price = Mul(c.take_profit, One - slippage)

ProtectiveExitSlippedWitness ==
  /\ \E j \in 1..Len(closed_trades) : closed_trades[j].exit_reason = "STOP_LOSS"
  /\ \E j \in 1..Len(closed_trades) :
       closed_trades[j].exit_reason = "TAKE_PROFIT"

\* C8: a call with a series that lacks a required column fails at once: no
\* bar is processed, no signal evaluated, no order filled, no equity value
\* appended.
MalformedSeriesAborts ==
  [][ (pc = "idle" /\ ~ (required_cols \subseteq columns')) =>
        /\ outcome' = "ValueError"
        /\ pc' = "idle"
        /\ signal' = NoSignal
        /\ timestamps' = <<>>
        /\ positions' = <<>>
        /\ closed_trades' = <<>>
        /\ cash' = initial_capital
        /\ equity_curve' = << initial_capital >> ]_vars

MalformedSeriesAbortsWitness ==
  outcome = "ValueError" /\ pc = "idle" /\ ~ (required_cols \subseteq columns)

\* C9 as stated: a call that aborts on a malformed series leaves the
\* engine's state as it was before the call.
AbortLeavesEngineUntouched ==
  [][ (pc = "idle" /\ outcome' = "ValueError") =>
        UNCHANGED engine ]_vars

\* C10: a BUY that validate_trade rejects opens nothing and leaves the cash;
\* the bar goes on to the protective-level check, which leaves no position
\* with a level hit, and to the mark-to-market, which appends one value, and
\* the run goes on.
RejectedBuyIsSkipped ==
  [][ /\ (/\ pc = "signal" /\ signal'.signal_type = "BUY"
          /\ ~ validate_trade(signal', portfolio_value, positions))
        => /\ positions' = positions
           /\ cash' = cash
           /\ closed_trades' = closed_trades
           /\ pc' = "exit"
           /\ outcome' = "running"
      /\ pc = "exit"
        => /\ pc' = "mark"
           /\ outcome' = "running"
           /\ \A k \in 1..Len(positions') :
                /\ ~ StopHit(positions'[k], data[i])
                /\ ~ TargetHit(positions'[k], data[i])
      /\ pc = "mark"
        => /\ Len(equity_curve') = Len(equity_curve) + 1
           /\ Last(equity_curve') = cash + OpenSharesValue(data[i].close)
           /\ outcome' = "running"
           /\ pc' = IF i < Len(data) THEN "signal" ELSE "finish" ]_vars

\* a rejected BUY on a bar that is not the last, with a position open
RejectedBuyIsSkippedWitness ==
  /\ pc = "exit" /\ signal.signal_type = "BUY" /\ i < Len(data)
  /\ positions # <<>>
  /\ ~ validate_trade(signal, portfolio_value, positions)

\* C11: never more than 5 positions are open; a BUY that arrives while 5 are
\* open is rejected: it opens nothing and costs nothing.
PositionCap ==
  [][ /\ Len(OpenOnly(positions)) <= MaxConcurrentPositions
      /\ Len(OpenOnly(positions')) <= MaxConcurrentPositions
      /\ (/\ pc = "signal" /\ signal'.signal_type = "BUY"
          /\ Len(OpenOnly(positions)) = MaxConcurrentPositions)
           => (positions' = positions /\ cash' = cash) ]_vars

\* a BUY on the sixth bar or later that found 5 positions open
PositionCapWitness ==
  /\ pc = "exit" /\ signal.signal_type = "BUY"
  /\ Len(positions) = MaxConcurrentPositions
  /\ EnteredAt(positions, i) = {}
  /\ cash > MinPositionSize + MinPositionSize

\* the shares an order for the signal's fraction of the portfolio acquires at
\* the signal's price
OrderedShares(sig, pv) == Div(Mul(sig.position_size, pv), sig.price)

\* the loss at the stop of the order the signal asks for
ProjectedRisk(sig, pv) ==
  Mul(Abs(sig.price - sig.stop_loss), OrderedShares(sig, pv))

\* C12 as stated: validate_trade rejects every BUY whose loss at the stop,
\* |price - stop_loss| times the shares ordered, exceeds max_portfolio_risk
\* times the portfolio value.
RiskCeilingRejects ==
  [][ (/\ pc = "signal" /\ signal'.signal_type = "BUY"
       /\ signal'.stop_loss # None
       /\ ProjectedRisk(signal', portfolio_value)
            > Mul(max_portfolio_risk, portfolio_value))
        => ~ validate_trade(signal', portfolio_value, positions) ]_vars

\* the signal's reward/risk ratio is below the minimum; no risk counts as 0
BelowMinimumRewardRisk(sig) ==
  LET risk == Abs(sig.price - sig.stop_loss)
      reward == Abs(sig.take_profit - sig.price)
  IN risk = 0 \/ reward * One < risk * risk_reward_ratio

\* C13: a BUY that carries a stop and a target with a reward/risk ratio
\* below 1.618, or with no risk at all, opens no position.
RewardRiskFloor ==
  [][ (/\ pc = "signal" /\ signal'.signal_type = "BUY"
       /\ signal'.stop_loss # None /\ signal'.take_profit # None
       /\ BelowMinimumRewardRisk(signal'))
        => (positions' = positions /\ cash' = cash) ]_vars

\* a BUY without risk has arrived on the second bar and nothing was opened
RewardRiskFloorWitness ==
  /\ pc = "exit" /\ i = 2 /\ signal.signal_type = "BUY"
  /\ signal.stop_loss = signal.price /\ signal.take_profit # None
  /\ positions = <<>> /\ closed_trades = <<>> /\ cash = initial_capital

\* C14 as stated: a position opened from a signal with a stop risks, at its
\* fill price, no more than max_portfolio_risk times the portfolio value.
RiskCappedAtFill ==
  [][ (/\ pc = "signal" /\ signal'.signal_type = "BUY"
       /\ signal'.stop_loss # None
       /\ Len(positions') = Len(positions) + 1)
        => LET t == Last(positions')
           IN Mul(t.entry_price - t.stop_loss, t.position_size)
                <= Mul(max_portfolio_risk, portfolio_value) ]_vars

\* C15 as stated: for every integer v >= 0, decompress(compress(v)) = v and
\* zeckendorf_decode(zeckendorf_encode(v)) = v.
ZeckendorfRoundTrip ==
  [][ /\ (/\ call.op = "compress" /\ call'.op = "decompress"
          /\ BigLeq(BigZero, call.value))
         => Returns(ret', call.value)
      /\ (/\ call.op = "zeckendorf_encode" /\ call'.op = "zeckendorf_decode"
          /\ BigLeq(BigZero, call.value))
         => Returns(ret', call.value) ]_vars

\* C16 as stated: for every v, the list compress(v) or zeckendorf_encode(v)
\* returns is ascending and any two of its indices differ by at least 2.
NonConsecutiveIndices ==
  (call.op \in { "compress", "zeckendorf_encode" } /\ Returned)
    => \A j, k \in DOMAIN ret.value :
         j < k => ret.value[k] - ret.value[j] >= 2

\* C17 as stated: compress(value) fails with an error for every value < 0.
NegativeCompressFails ==
  (call.op = "compress" /\ Returned /\ BigLess(call.value, BigZero))
    => ret.error # "none"

\* C17: compress(value) returns the empty list, and raises nothing, for
\* every value <= 0; so does zeckendorf_encode.
NonPositiveCompressIsEmpty ==
  (/\ call.op \in { "compress", "zeckendorf_encode" } /\ Returned
   /\ BigLeq(call.value, BigZero))
    => Returns(ret, <<>>)

NonPositiveCompressIsEmptyWitness ==
  /\ call = [op |-> "compress", value |-> Big(0 - 2)]
  /\ Returns(ret, <<>>)

\* two of the indices, anywhere in the list, are consecutive integers
HasConsecutive(indices) ==
  \E j, k \in DOMAIN indices : indices[k] - indices[j] = 1

\* C18: decompress raises ValueError, and returns nothing, for every index
\* list that holds two consecutive integers anywhere.
ConsecutiveRejected ==
  (call.op = "decompress" /\ Returned /\ HasConsecutive(call.indices))
    => Raises(ret, "ValueError")

\* the two consecutive indices are neither neighbours nor in order
ConsecutiveRejectedWitness ==
  /\ call = [op |-> "decompress", indices |-> << 3, 5, 2 >>]
  /\ Raises(ret, "ValueError")

\* index is the largest index of the table whose value is at most price
LargestIndexAtMost(fib_sequence, index, price) ==
  /\ index \in 0..(Len(fib_sequence) - 1)
  /\ BigLeq(At(fib_sequence, index), price)
  /\ \A k \in (index + 1)..(Len(fib_sequence) - 1) :
       BigLess(price, At(fib_sequence, k))

\* C19 as stated: for every table size and price, encode_price returns 0
\* for price <= 0, 1 for price = 1, otherwise the largest table index whose
\* value is at most price; decode_price accepts the index, and what it
\* returns is at most price when price >= 0.
EncodePriceDecodes ==
  [][ (call.op = "encode_price" /\ call'.op = "decode_price")
        => /\ IF BigLeq(call.price, BigZero) THEN ret.value = 0
              ELSE IF call.price = Big(1) THEN ret.value = 1
              ELSE LargestIndexAtMost(Table(call), ret.value, call.price)
           /\ ret'.error = "none"
           /\ BigLeq(BigZero, call.price) => BigLeq(ret'.value, call.price)
    ]_vars

\* C20 as stated: find_support_resistance(price, k) returns, without error,
\* the table values at the up to k indices just below and just above
\* encode_price(price); every support is strictly below price and every
\* resistance strictly above.
SupportBelowResistanceAbove ==
  (call.op = "find_support_resistance" /\ Returned)
    => /\ ret.error = "none"
       /\ LET fib == Table(call)
              c == encode_price(fib, call.price)
              s == ret.value.support
              r == ret.value.resistance
          IN /\ Len(s) = Min2(call.levels, c)
             /\ Len(r) = Min2(call.levels,
                              IF c < Len(fib) THEN Len(fib) - 1 - c ELSE 0)
             /\ \A k \in DOMAIN s :
                  s[k] = At(fib, c - k) /\ BigLess(s[k], call.price)
             /\ \A k \in DOMAIN r :
                  r[k] = At(fib, c + k) /\ BigLess(call.price, r[k])

\* the indices after that of current_time whose Lucas value is divisible by 3
EquilibriaAfter(lucas_sequence, current_time) ==
  { j \in (encode_time(lucas_sequence, current_time) + 1)
            ..(Len(lucas_sequence) - 1) :
      BigMod(At(lucas_sequence, j), 3) = 0 }

\* C21: next_equilibrium_time raises nothing; it returns -1 when the table
\* has no index after encode_time(current_time) whose Lucas value is
\* divisible by 3, otherwise the value at the smallest such index, and that
\* value is above current_time.
NextEquilibriumIsNextOrSentinel ==
  (call.op = "next_equilibrium_time" /\ Returned)
    => /\ ret.error = "none"
       /\ LET lucas == LucasTable(call)
              after == EquilibriaAfter(lucas, call.current_time)
          IN IF after = {} THEN ret.value = Big(0 - 1)
             ELSE /\ \E j \in after :
                       /\ \A k \in after : j <= k
                       /\ ret.value = At(lucas, j)
                  /\ BigLess(call.current_time, ret.value)

\* on the default table the time 3, itself an equilibrium value, is answered
\* with the next one, 18
NextEquilibriumIsNextOrSentinelWitness ==
  /\ call = [op |-> "next_equilibrium_time",
             max_index |-> LucasDefaultMaxIndex, current_time |-> Big(3)]
  /\ Returns(ret, Big(18))

\* C25: the profit factor analyze_trades reports is gross profit over the
\* magnitude of the gross loss; with a gross loss of 0 it is positive
\* infinity when there is a gross profit, and 0 when there is none.
GrossProfit(trades) == SumPnl(SelectSeq(trades, IsWinner))

GrossLoss(trades) == Abs(SumPnl(SelectSeq(trades, IsLoser)))

ProfitFactorInfiniteWithoutLoss ==
  (call.op = "analyze_trades" /\ ret.error = "none" /\ call.trades # <<>>)
    => ret.value.profit_factor =
         IF GrossLoss(call.trades) > 0
         THEN Fin(Div(GrossProfit(call.trades), GrossLoss(call.trades)))
         ELSE IF GrossProfit(call.trades) > 0 THEN PosInf
         ELSE Fin(0)

\* C26: calculate_sharpe_ratio and calculate_sortino_ratio return a number:
\* never NaN, never an infinity.
RatiosAreNumbers ==
  /\ (call.op \in { "calculate_sharpe_ratio", "calculate_sortino_ratio" }
      /\ Returned)
       => IsFinite(ret.value)
  /\ (call.op = "analyze_trades" /\ Returned)
       => /\ ret.error = "none"
          /\ IsFinite(ret.value.sharpe_ratio)
          /\ IsFinite(ret.value.sortino_ratio)

\* C27: calculate_max_drawdown returns a finite drawdown that is at most 0,
\* with the length of the longest run of points strictly below the running
\* maximum, and (0, 0) for an empty curve.
PointsBelowRunningMax(curve) ==
  [k \in DOMAIN curve |-> curve[k] < RunningMax(curve, k)]

MaxDrawdownFiniteNonPositive ==
  /\ (call.op = "calculate_max_drawdown" /\ Returned)
       => /\ IsFinite(ret.value.max_drawdown)
          /\ ret.value.max_drawdown.v <= 0
          /\ ret.value.max_dd_duration =
               LongestRun(PointsBelowRunningMax(call.curve))
          /\ call.curve = <<>> =>
               ret.value = [max_drawdown |-> Fin(0), max_dd_duration |-> 0]
  /\ (call.op = "analyze_trades" /\ Returned)
       => /\ ret.error = "none"
          /\ IsFinite(ret.value.max_drawdown)
          /\ ret.value.max_drawdown.v <= 0
          /\ ret.value.max_drawdown_duration =
               LongestRun(PointsBelowRunningMax(PnlCurve(call.trades)))

GenerateSignalLeavesStrategy ==
  (call.op = "generate_signal" /\ Returned)
    => ret.value.strategy = call.self

\* C28: a run in which every signal is HOLD opens and closes nothing: no
\* position, an empty ledger, the cash and every entry of the equity curve
\* at the initial capital; the mean reversion strategy on a flat series
\* gives HOLD on every bar.
CapitalUntouched ==
  /\ positions = <<>>
  /\ closed_trades = <<>>
  /\ cash = initial_capital
  /\ \A k \in DOMAIN equity_curve : equity_curve[k] = initial_capital

AllHoldLeavesCapital ==
  [][ /\ (pc = "idle" /\ pc' # "idle") => CapitalUntouched'
      /\ (/\ pc # "idle"
          /\ CapitalUntouched
          /\ pc = "signal" => signal'.signal_type = "HOLD")
           => CapitalUntouched'
      /\ (pc = "signal" /\ IsFlat(data)) => signal'.signal_type = "HOLD"
      /\ (pc' = "idle" /\ IsFlat(data')) =>
            /\ CapitalUntouched'
            /\ Len(equity_curve') = Len(data') + 1 ]_vars

\* the run over the flat series is over
AllHoldLeavesCapitalWitness ==
  /\ outcome = "returned" /\ pc = "idle"
  /\ strategy.name = "MeanReversion"
  /\ Len(data) = FlatBars /\ IsFlat(data)
  /\ Last(equity_curve) = initial_capital
  /\ cash = initial_capital

\* C24: once the exits of a bar are checked, no position has been open for
\* longer than the holding period get_exit_day selects; the Lucas exit
\* strategy emits neither BUY nor SELL.
TimeExitEnforced ==
  /\ pc = "mark" =>
       \A k \in DOMAIN positions :
         i - positions[k].entry_timestamp
           <= get_exit_day(positions[k].entry_timestamp - 1, One)
  /\ strategy.name = "LucasSequenceExit" =>
       signal.signal_type \in { "NONE", "HOLD" }

\* C30: a call of run_backtest on a used engine starts from the state of a
\* newly constructed engine, whatever the earlier runs left, so it runs and
\* returns as on a new engine; while it runs, the ledger and the equity
\* table an earlier call returned stay as they were returned.
AsConstructed ==
  /\ cash = initial_capital
  /\ portfolio_value = initial_capital
  /\ positions = <<>>
  /\ closed_trades = <<>>
  /\ equity_curve = << initial_capital >>
  /\ timestamps = <<>>

NoStateSurvivesRuns ==
  [][ /\ (pc = "idle" /\ outcome' \in { "running", "ValueError" })
           => AsConstructed'
      /\ (Returned /\ pc' # "idle") => ret' = ret
      /\ (pc = "idle" /\ pc' = "idle") => ret' = ret ]_vars

\* a second run is under way with a position open, and the caller holds the
\* ledger of the first run
NoStateSurvivesRunsWitness ==
  /\ pc = "mark" /\ positions # <<>>
  /\ ret.error = "none"
  /\ ret.value.all_trades # <<>>
  /\ ret.value.all_trades # closed_trades

\* C29: two engines whose runs interleave in any order are, at the same
\* point of the same run, in the same state, and return the same: the state
\* of a run is that of the run made alone, whatever the other engine does;
\* a step of one engine leaves the other engine as it was.
SamePoint ==
  /\ other.data = data
  /\ other.pc = pc
  /\ other.i = i
  /\ other.outcome = outcome
  /\ other.ret.error = ret.error

EnginesAgree ==
  SamePoint =>
    /\ other.cash = cash
    /\ other.portfolio_value = portfolio_value
    /\ other.positions = positions
    /\ other.closed_trades = closed_trades
    /\ other.equity_curve = equity_curve
    /\ other.timestamps = timestamps
    /\ ret.error = "none" => other.ret.value = ret.value

\* both engines have returned from the same run with a closed trade, one
\* of them while the other was in the middle of its run
EnginesAgreeWitness ==
  /\ SamePoint
  /\ pc = "idle" /\ ret.error = "none"
  /\ ret.value.all_trades # <<>>
  /\ other.ret.value.all_trades = ret.value.all_trades

\* run_backtest has returned its tuple and the caller still holds it
Completed == pc = "idle" /\ outcome = "returned" /\ ret.error = "none"

\* C31: after a completed run the last equity of the returned table is
\* within 1% of the initial capital of initial_capital + total_return.
FinalEquityMatchesReturn ==
  (Completed /\ ret.value.equity_df # <<>>) =>
    Abs(Last(ret.value.equity_df).equity
          - (initial_capital + ret.value.metrics.total_return))
      <= Mul(initial_capital, 10)

\* C39: the returned table has one row per bar, and row k holds bar k's
\* timestamp beside the equity marked to market after bar k.
EquityRowsAfterTheirBar ==
  Completed =>
    /\ Len(ret.value.equity_df) = Len(data)
    /\ \A k \in 1..Len(data) :
         /\ ret.value.equity_df[k].timestamp = k
         /\ ret.value.equity_df[k].equity = equity_curve[k + 1]

\* C38: the positions force-closed at the end of the data are paid into
\* cash like every other exit (proceeds less commission), so that after the
\* return the cash is the whole portfolio value.
ForcedCloseCredited ==
  [][ pc = "finish" =>
        LET forced == SubSeq(closed_trades', Len(closed_trades) + 1,
                             Len(closed_trades'))
        IN /\ cash' = cash + CashFrom(forced)
           /\ positions' = <<>>
           /\ cash' + PositionsValue(positions', Last(data).close)
                = portfolio_value' ]_vars

\* a bar has been processed: its signal executed and its exits checked
BarChecked == pc = "mark" \/ (pc \in {"signal", "finish"} /\ i > 1)

\* the bar that was processed last
CheckedBar == IF pc = "mark" THEN data[i] ELSE data[i - 1]

\* C34: after every bar, whatever its signal, no position is open whose
\* stop_loss is at or above the bar's low or whose take_profit is at or below
\* the bar's high; the levels are tested against low and high, not the close.
NoTriggeredPositionOpen ==
  BarChecked =>
    \A k \in 1..Len(positions) :
      IsOpen(positions[k]) =>
        /\ ~ (positions[k].stop_loss >= CheckedBar.low)
        /\ ~ (positions[k].take_profit <= CheckedBar.high)

\* on a bar with a BUY, a position entered on an earlier bar was stopped
\* out though the bar's close stayed above its stop
NoTriggeredPositionOpenWitness ==
  /\ pc = "mark"
  /\ signal.signal_type = "BUY"
  /\ \E j \in 1..Len(closed_trades) :
       /\ closed_trades[j].exit_reason = "STOP_LOSS"
       /\ closed_trades[j].exit_timestamp = i
       /\ closed_trades[j].entry_timestamp < i
       /\ closed_trades[j].stop_loss < data[i].close

\* the order of a validated BUY does not fit into the cash
ShortOfCash(sig) ==
  LET notional == calculate_position_size(sig, portfolio_value, positions)
  IN notional + Mul(notional, commission) > cash

\* the notional _execute_buy goes on with: the sized one, or, when the cash
\* is short, (cash / (1 + commission)) * 0.99
AffordableNotional(sig) ==
  IF ShortOfCash(sig) THEN Mul(Div(cash, One + commission), 990)
  ELSE calculate_position_size(sig, portfolio_value, positions)

\* C35: a validated BUY that the cash does not cover is resized to
\* (cash / (1 + commission)) * 0.99 and not turned down, and the debit never
\* exceeds the cash; an order whose notional, resized or not, is under 100 is
\* dropped with cash and positions unchanged.
ShortOrderResized ==
  [][ (/\ pc = "signal" /\ signal'.signal_type = "BUY"
       /\ validate_trade(signal', portfolio_value, positions)) =>
        LET notional == AffordableNotional(signal')
        IN IF notional < MinPositionSize
             THEN cash' = cash /\ positions' = positions
             ELSE /\ Len(positions') = Len(positions) + 1
                  /\ Last(positions').position_size
                       = Div(notional, Last(positions').entry_price)
                  /\ cash - cash' = notional + Mul(notional, commission)
                  /\ cash' >= 0 ]_vars

\* a position was bought on this bar with an order cut down to the cash:
\* what is left of the cash is under a ninetieth of the order
ShortOrderResizedWitness ==
  /\ pc = "exit" /\ signal.signal_type = "BUY"
  /\ Len(positions) >= 2
  /\ Last(positions).entry_timestamp = i
  /\ cash * 90 < Mul(Last(positions).position_size, Last(positions).entry_price)

MatchedLevel(self, d, k) ==
  Head(LevelsNear(find_swing_points(self, d, k), d[k].close))

\* C33: a Retracement BUY carries a higher confidence the nearer its matched
\* level is to 0.618: a level nearer to 0.618 than the matched one would have
\* given a higher confidence, so 0.618 gives more than 0.5 and 0.5 more than
\* 0.382.
ConfidenceHighestAtGolden ==
  (/\ call.op = "generate_signal" /\ Returned
   /\ call.self.name = "FibonacciRetracement"
   /\ ret.value.signal.signal_type = "BUY") =>
    LET matched == MatchedLevel(call.self, call.data, call.index)
    IN \A k \in DOMAIN entry_levels :
         Abs(entry_levels[k] - 618) < Abs(matched - 618)
           => retracement_confidence(entry_levels[k])
                > ret.value.signal.confidence

ExitReasons == { "SIGNAL", "STOP_LOSS", "TAKE_PROFIT", "END_OF_DATA" }

\* the ledger holds closed trades only, each trade once, and none of them is
\* among the positions; after the run no position is left
LedgerOfClosedTrades ==
  /\ \A j \in 1..Len(closed_trades) :
       /\ closed_trades[j].status = "CLOSED"
       /\ closed_trades[j].exit_reason \in ExitReasons
       /\ Cardinality(EnteredAt(closed_trades,
                                closed_trades[j].entry_timestamp)) = 1
       /\ EnteredAt(positions, closed_trades[j].entry_timestamp) = {}
  /\ \A k \in 1..Len(positions) : IsOpen(positions[k])
  /\ (pc = "idle" /\ outcome # "running") => positions = <<>>

\* a step of a run keeps every ledger entry as it is, in its place, and
\* every position it takes from the positions is in the ledger after it
LedgerStep ==
  pc # "idle" =>
    /\ Len(closed_trades') >= Len(closed_trades)
    /\ SubSeq(closed_trades', 1, Len(closed_trades)) = closed_trades
    /\ \A k \in 1..Len(positions) :
         \/ EnteredAt(positions', positions[k].entry_timestamp) # {}
         \/ EnteredAt(closed_trades', positions[k].entry_timestamp) # {}

\* C36: every position opened in a run is in the ledger exactly once by the
\* end of the run, CLOSED and with one of the four exit reasons; no trade is
\* among the positions and in the ledger at once; within a run the ledger
\* only grows and its entries do not change.
AppendOnlyLedger == [] LedgerOfClosedTrades /\ [][LedgerStep]_vars

\* a finished run whose ledger has a protective exit and a forced close
AppendOnlyLedgerWitness ==
  /\ pc = "idle" /\ outcome # "running" /\ positions = <<>>
  /\ \E j \in 1..Len(closed_trades) :
       closed_trades[j].exit_reason \in { "STOP_LOSS", "TAKE_PROFIT" }
  /\ \E j \in 1..Len(closed_trades) :
       closed_trades[j].exit_reason = "END_OF_DATA"

\* C32: a result is handed to the store only when total_return > 0 and
\* sharpe_ratio >= 1.0; otherwise store_strategy returns False and runs no
\* store command.
StoredOnlyWhenQualified ==
  (call.op = "store_strategy" /\ Returned) =>
    LET qualified ==
          /\ call.metrics.total_return > 0
          /\ \/ call.metrics.sharpe_ratio.kind = "inf"
             \/ /\ IsFinite(call.metrics.sharpe_ratio)
                /\ call.metrics.sharpe_ratio.v >= One
    IN ~ qualified => (ret.value.commands = <<>> /\ ~ ret.value.result)

\* C40: under any interleaving of the requests each bucket's tokens stay
\* between 0 and its capacity, a request is admitted only with one token
\* taken from both buckets, and a refused request has taken no token from
\* either bucket.
RefusalTakesNoToken ==
  /\ hourly_limiter.tokens >= 0
  /\ hourly_limiter.tokens <= hourly_limiter.capacity
  /\ minute_limiter.tokens >= 0
  /\ minute_limiter.tokens <= minute_limiter.capacity
  /\ \A t \in Threads :
       /\ requests[t].pc = "admitted"
            => requests[t].taken = { "hourly", "minute" }
       /\ requests[t].pc = "refused" => requests[t].taken = {}

====
